---- MODULE Spec2Model ----
(***************************************************************************)
(* Go Standards Checker: the report package (Violation, Report, Summary,   *)
(* NewReport, AddViolation, Finalize, Filter, HasErrors, ExitCode) and the *)
(* severity helpers of the rules package.                                  *)
(***************************************************************************)
EXTENDS Integers, Sequences, FiniteSets, TLC

\* The report object under operation, the value returned by the last call
\* (NoReport when the call returns none), whether that pointer is the receiver,
\* the argument of the last call, the last operation, the number of
\* Finalize calls on the report, and whether the last Finalize reordered it.
VARIABLES report, ret, retIsReceiver, arg, lastOp, finalized, moved

\* The run of the command: its configuration, the project it scans, the
\* position in main/Check, the collected files, the loop index, the checker's
\* line cache, the directories probed so far, and the exit status.
VARIABLES config, world, pc, goFiles, idx, fileMap, probes, exitCode

reportVars == <<report, ret, retIsReceiver, arg, lastOp, finalized, moved>>

checkerVars == <<config, world, pc, goFiles, idx, fileMap, probes, exitCode>>

vars == <<reportVars, checkerVars>>

(* ------------------------------ bounds --------------------------------- *)

MaxViolations == 2

MaxFinalize == 2

MaxDisabled == 1

(* --------------------------- rules.Severity ---------------------------- *)

SeverityError == "error"

SeverityWarning == "warning"

SeverityInfo == "info"

Severities == {SeverityError, SeverityWarning, SeverityInfo}

\* Strings a caller may hand to ParseSeverity or use as a Severity value.
SeverityStrings == Severities \cup {"fatal"}

ParseSeverity(s) ==
    CASE s = "error" -> SeverityError
      [] s = "warning" -> SeverityWarning
      [] OTHER -> SeverityInfo

Level(s) ==
    CASE s = SeverityError -> 3
      [] s = SeverityWarning -> 2
      [] OTHER -> 1

(* ------------------------------ Go maps -------------------------------- *)

EmptyMap == << >>

MapGet(m, k) == IF k \in DOMAIN m THEN m[k] ELSE 0

MapInc(m, k) ==
    IF k \in DOMAIN m THEN [m EXCEPT ![k] = @ + 1] ELSE m @@ (k :> 1)

(* --------------------------- report.Violation -------------------------- *)

\* The category of a finding is fixed by the rule that produces it.
CategoryOf(rule) == IF rule = "file_name" THEN "naming" ELSE "custom"

BaseViolation ==
    [File |-> "/proj/a.go", Line |-> 1, Rule |-> "file_name",
     Category |-> CategoryOf("file_name"), Severity |-> SeverityError,
     Message |-> <<"msg">>]

AllViolations ==
    { [File |-> f, Line |-> l, Rule |-> r, Category |-> CategoryOf(r),
       Severity |-> s, Message |-> <<"msg">>] :
        f \in {"/proj/a.go", "/proj/b.go"}, l \in {1, 2},
        r \in {"file_name", "no_secrets"}, s \in Severities }

Distance(v, w) ==
    (IF v.File = w.File THEN 0 ELSE 1) + (IF v.Line = w.Line THEN 0 ELSE 1)
    + (IF v.Rule = w.Rule THEN 0 ELSE 1)
    + (IF v.Severity = w.Severity THEN 0 ELSE 1)

\* The findings the operations are exercised with: the base finding and
\* every finding that differs from it in one field.
Violations == { v \in AllViolations : Distance(v, BaseViolation) <= 1 }

(* ----------------------------- report.Report --------------------------- *)

ProjectPaths == {"/proj"}

\* The file counts a caller stores in TotalFiles.
FileCounts == {2}

NoReport == [none |-> TRUE]

NewReport(projectPath) ==
    [ProjectPath |-> projectPath,
     TotalFiles |-> 0,
     Violations |-> << >>,
     Summary |-> [TotalViolations |-> 0,
                  ByCategory |-> EmptyMap,
                  BySeverity |-> EmptyMap,
                  PassedRules |-> 0,
                  FailedRules |-> 0]]

AddViolation(r, v) == [r EXCEPT !.Violations = Append(@, v)]

\* The strings used as paths, in ascending byte order (Go's < on strings).
PathOrder ==
    <<"/proj", "/proj/B.go", "/proj/a.go", "/proj/b.go", "/proj/bad.go", "/proj/c.go">>

PathRank(f) == CHOOSE i \in 1..Len(PathOrder) : PathOrder[i] = f

StringLess(a, b) == PathRank(a) < PathRank(b)

\* Less with the severity comparison turned around.
LessLevelAscending(a, b) ==
    IF Level(a.Severity) # Level(b.Severity)
    THEN Level(a.Severity) < Level(b.Severity)
    ELSE IF a.File # b.File
         THEN StringLess(a.File, b.File)
         ELSE a.Line < b.Line

\* The comparison function handed to sort.Slice.
Less(a, b) ==
    IF Level(a.Severity) # Level(b.Severity)
    THEN Level(a.Severity) > Level(b.Severity)
    ELSE IF a.File # b.File
         THEN StringLess(a.File, b.File)
         ELSE a.Line < b.Line

RemoveAt(s, i) == SubSeq(s, 1, i - 1) \o SubSeq(s, i + 1, Len(s))

RECURSIVE SortSlice(_)
\* sort.Slice: the slice is permuted into an order sorted by Less; the order
\* of elements that Less does not separate is not specified. The outcomes are
\* built front to back: any element that no other one precedes may come first.
SortSlice(s) ==
    IF s = << >> THEN { << >> }
    ELSE UNION { { <<s[i]>> \o t : t \in SortSlice(RemoveAt(s, i)) } :
                   i \in { k \in 1..Len(s) :
                              \A j \in 1..Len(s) : ~Less(s[j], s[k]) } }

RECURSIVE CountInto(_, _, _)
\* The counting loop of Finalize over vs[i..], accumulating into summary sm.
CountInto(sm, vs, i) ==
    IF i > Len(vs) THEN sm
    ELSE CountInto([sm EXCEPT !.ByCategory = MapInc(@, vs[i].Category),
                              !.BySeverity = MapInc(@, vs[i].Severity)],
                   vs, i + 1)

\* Finalize: the set of reports it may leave (one per order sort.Slice may
\* produce).
Finalize(r) ==
    LET sm == CountInto([r.Summary EXCEPT !.TotalViolations = Len(r.Violations)],
                        r.Violations, 1)
    IN { [r EXCEPT !.Summary = sm, !.Violations = t] : t \in SortSlice(r.Violations) }

\* Keeps with a strict comparison.
KeepsStrict(v, minSeverity) == Level(v.Severity) > Level(minSeverity)

\* Whether Filter keeps finding v under threshold minSeverity.
Keeps(v, minSeverity) == Level(v.Severity) >= Level(minSeverity)

\* Filter that filters the receiver itself and returns it.
FilterInPlace(r, minSeverity) ==
    LET kept == SelectSeq(r.Violations, LAMBDA v : Keeps(v, minSeverity))
    IN { [recv |-> f, out |-> f, same |-> TRUE] :
            f \in Finalize([r EXCEPT !.Violations = kept]) }

\* Filter that returns the filtered report without finalizing it.
FilterSkipsFinalize(r, minSeverity) ==
    LET fresh == [NewReport(r.ProjectPath) EXCEPT !.TotalFiles = r.TotalFiles]
        kept == SelectSeq(r.Violations, LAMBDA v : Keeps(v, minSeverity))
    IN { [recv |-> r, out |-> [fresh EXCEPT !.Violations = kept], same |-> FALSE] }

\* Filter: the outcomes of a call on receiver r. recv is the receiver after
\* the call, out the report returned, same whether the returned pointer is
\* the receiver itself.
Filter(r, minSeverity) ==
    LET fresh == [NewReport(r.ProjectPath) EXCEPT !.TotalFiles = r.TotalFiles]
        kept == SelectSeq(r.Violations, LAMBDA v : Keeps(v, minSeverity))
        filtered == [fresh EXCEPT !.Violations = kept]
    IN { [recv |-> r, out |-> f, same |-> FALSE] : f \in Finalize(filtered) }

\* HasErrors reading the warning count.
HasErrorsReadsWarnings(r) == MapGet(r.Summary.BySeverity, "warning") > 0

HasErrors(r) == MapGet(r.Summary.BySeverity, "error") > 0

HasWarnings(r) == MapGet(r.Summary.BySeverity, "warning") > 0

ExitCode(r) == IF HasErrors(r) THEN 1 ELSE 0

(* ----------------------------- rules.Config ---------------------------- *)

\* The enabled flags of a configuration document, one per category and rule.
Flags ==
    {"naming", "naming.package_name", "naming.exported_names",
     "naming.file_name", "naming.interface_name", "naming.error_var",
     "structure", "structure.max_function_lines",
     "structure.max_nesting_level", "structure.max_parameters",
     "structure.max_return_values",
     "error_handling", "error_handling.no_ignored_errors",
     "error_handling.no_panic",
     "logging", "logging.no_fmt_println",
     "directory", "directory.required_dirs", "directory.recommended_dirs",
     "struct_tags", "struct_tags.json_tag", "struct_tags.validation_tag",
     "custom.no_secrets", "custom.no_todo"}

BaseRule(disabled, flag, severity, message) ==
    [Enabled |-> flag \notin disabled, Severity |-> severity, Message |-> message]

\* The configuration in which exactly the flags of disabled are false.
Config(disabled, minSeverity) ==
    [Settings |-> [MinSeverity |-> minSeverity],
     Naming |->
        [Enabled |-> "naming" \notin disabled,
         Rules |->
            [PackageName |->
                BaseRule(disabled, "naming.package_name", "error", "package name")
                    @@ [Pattern |-> "^[a-z][a-z0-9]*$"],
             ExportedNames |->
                BaseRule(disabled, "naming.exported_names", "warning", "exported name"),
             FileName |->
                BaseRule(disabled, "naming.file_name", "warning", "file name")
                    @@ [Pattern |-> "^[a-z][a-z0-9_]*[.]go$"],
             InterfaceName |->
                BaseRule(disabled, "naming.interface_name", "info", "interface name")
                    @@ [Suffixes |-> <<"er", "Service">>],
             ErrorVar |->
                BaseRule(disabled, "naming.error_var", "warning", "error var")
                    @@ [Pattern |-> "^Err[A-Z]"]]],
     Structure |->
        [Enabled |-> "structure" \notin disabled,
         Rules |->
            [MaxFunctionLines |->
                BaseRule(disabled, "structure.max_function_lines", "warning", "lines")
                    @@ [Limit |-> 5],
             MaxNestingLevel |->
                BaseRule(disabled, "structure.max_nesting_level", "error", "nesting")
                    @@ [Limit |-> 1],
             MaxParameters |->
                BaseRule(disabled, "structure.max_parameters", "info", "parameters")
                    @@ [Limit |-> 1],
             MaxReturnValues |->
                BaseRule(disabled, "structure.max_return_values", "info", "returns")
                    @@ [Limit |-> 1]]],
     ErrorHandling |->
        [Enabled |-> "error_handling" \notin disabled,
         Rules |->
            [NoIgnoredErrors |->
                BaseRule(disabled, "error_handling.no_ignored_errors", "error",
                         "ignored error")
                    @@ [AllowedPatterns |-> <<"^fmt[.]">>],
             NoPanic |->
                BaseRule(disabled, "error_handling.no_panic", "error", "panic")
                    @@ [AllowedIn |-> <<"main.go">>]]],
     Logging |->
        [Enabled |-> "logging" \notin disabled,
         Rules |->
            [NoFmtPrintln |->
                BaseRule(disabled, "logging.no_fmt_println", "warning", "println")]],
     Directory |->
        [Enabled |-> "directory" \notin disabled,
         Rules |->
            [RequiredDirs |->
                BaseRule(disabled, "directory.required_dirs", "error", "required")
                    @@ [Dirs |-> <<"cmd", "internal">>],
             RecommendedDirs |->
                BaseRule(disabled, "directory.recommended_dirs", "info", "recommended")
                    @@ [Dirs |-> <<"docs">>]]],
     StructTags |->
        [Enabled |-> "struct_tags" \notin disabled,
         Rules |->
            [JSONTag |->
                BaseRule(disabled, "struct_tags.json_tag", "warning", "json tag")
                    @@ [Style |-> "snake_case"],
             ValidationTag |->
                BaseRule(disabled, "struct_tags.validation_tag", "warning",
                         "validation tag")
                    @@ [RequiredFor |-> <<"*Request">>]]],
     CustomRules |->
        << [Name |-> "no_secrets", Enabled |-> "custom.no_secrets" \notin disabled,
            Severity |-> "error", Pattern |-> "password *=",
            Message |-> "secret", ExcludeFiles |-> << >>],
           [Name |-> "no_todo", Enabled |-> "custom.no_todo" \notin disabled,
            Severity |-> "info", Pattern |-> "TODO",
            Message |-> "todo", ExcludeFiles |-> <<"B*.go">>] >>]

\* The rules of a configuration document that carry a regex.
PatternSlots ==
    {"naming.file_name", "naming.package_name", "naming.error_var",
     "error_handling.no_ignored_errors", "custom.no_secrets", "custom.no_todo"}

\* cfg with a pattern that does not compile in every rule of broken.
BreakPatterns(cfg, broken) ==
    [cfg EXCEPT
        !.Naming.Rules.FileName.Pattern =
            IF "naming.file_name" \in broken THEN "[a-z" ELSE @,
        !.Naming.Rules.PackageName.Pattern =
            IF "naming.package_name" \in broken THEN "[a-z" ELSE @,
        !.Naming.Rules.ErrorVar.Pattern =
            IF "naming.error_var" \in broken THEN "[a-z" ELSE @,
        !.ErrorHandling.Rules.NoIgnoredErrors.AllowedPatterns =
            IF "error_handling.no_ignored_errors" \in broken THEN <<"[a-z">> ELSE @,
        !.CustomRules[1].Pattern =
            IF "custom.no_secrets" \in broken THEN "[a-z" ELSE @,
        !.CustomRules[2].Pattern =
            IF "custom.no_todo" \in broken THEN "[a-z" ELSE @]

(* ------------------------- the scanned project ------------------------ *)

\* An *ast.FieldList: nil, or the list of its fields. For the parameters and
\* results of a function each field is written as the number of parameters
\* or results it declares: (a int, b string) is <<1, 1>>, (a, b, c int) is <<3>>.
NilFields == [isNil |-> TRUE, List |-> << >>]

Fields(list) == [isNil |-> FALSE, List |-> list]

NilBlock == [kind |-> "BlockStmt", isNil |-> TRUE, List |-> << >>]

Block(list) == [kind |-> "BlockStmt", isNil |-> FALSE, List |-> list]

NoElse == [kind |-> "nil"]

NilTag == [isNil |-> TRUE, jsonMatch |-> FALSE, jsonName |-> "", hasValidate |-> FALSE]

Ident(name) == [kind |-> "Ident", name |-> name]

\* /proj/a.go:
\*    1  package main
\*    2  var Sentinel error
\*    3  type Store interface{}
\*    4  type UserRequest struct {
\*    5      UserName string `json:"userName"`
\*    6  }
\*    7  func Run(a int, b string) (int, error) {
\*    8      _ = g()
\*    9      for {
\*   10          if a > 0 { panic("boom") }
\*   11      }
\*   12      fmt.Println(b) // TODO
\*   13      return 0, nil // password = x
\*   14  }
FileA ==
    [path |-> "/proj/a.go", base |-> "a.go", isGo |-> TRUE, excluded |-> FALSE,
     readable |-> TRUE, parses |-> TRUE,
     lines |-> <<"package main", "var Sentinel error", "type Store interface{}",
                 "type UserRequest struct {", "UserName string json:userName",
                 "}", "func Run(a int, b string) (int, error) {", "_ = g()",
                 "for {", "if a > 0 { panic(boom) }", "}",
                 "fmt.Println(b) // TODO", "return 0, nil // password = x", "}">>,
     pkgName |-> "main", pkgLine |-> 1,
     nodes |->
        << [kind |-> "GenDecl", tok |-> "var", inFunc |-> FALSE,
            specs |-> << [names |-> << [name |-> "Sentinel", line |-> 2] >>,
                          type |-> "error"] >>],
           [kind |-> "GenDecl", tok |-> "type", inFunc |-> FALSE, specs |-> << >>],
           [kind |-> "TypeSpec", name |-> "Store", line |-> 3,
            type |-> "InterfaceType", fields |-> NilFields],
           [kind |-> "GenDecl", tok |-> "type", inFunc |-> FALSE, specs |-> << >>],
           [kind |-> "TypeSpec", name |-> "UserRequest", line |-> 4,
            type |-> "StructType",
            fields |-> Fields(<< [line |-> 5,
                                  tag |-> [isNil |-> FALSE, jsonMatch |-> TRUE,
                                           jsonName |-> "userName",
                                           hasValidate |-> FALSE]] >>)],
           [kind |-> "FuncDecl", name |-> "Run", line |-> 7, endLine |-> 14,
            params |-> Fields(<<1, 1>>), results |-> Fields(<<1, 1>>),
            body |-> Block(<< [kind |-> "AssignStmt"],
                              [kind |-> "ForStmt",
                               Body |-> Block(<< [kind |-> "IfStmt",
                                                  Body |-> Block(<< [kind |-> "ExprStmt"] >>),
                                                  Else |-> NoElse] >>)],
                              [kind |-> "ExprStmt"],
                              [kind |-> "ReturnStmt"] >>)],
           [kind |-> "AssignStmt", line |-> 8, lhs |-> << Ident("_") >>,
            rhs |-> << [kind |-> "CallExpr", fun |-> Ident("g")] >>],
           [kind |-> "CallExpr", line |-> 8, fun |-> Ident("g")],
           [kind |-> "CallExpr", line |-> 10, fun |-> Ident("panic")],
           [kind |-> "CallExpr", line |-> 12,
            fun |-> [kind |-> "SelectorExpr", x |-> Ident("fmt"), sel |-> "Println"]] >>]

\* /proj/B.go (the function's name starts with the letter U+00C9):
\*    1  package Util
\*    2  func U+00C9lan() {}
\*    3  // TODO
FileB ==
    [path |-> "/proj/B.go", base |-> "B.go", isGo |-> TRUE, excluded |-> FALSE,
     readable |-> TRUE, parses |-> TRUE,
     lines |-> <<"package Util", "func U+00C9lan() {}", "// TODO">>,
     pkgName |-> "Util", pkgLine |-> 1,
     nodes |->
        << [kind |-> "FuncDecl", name |-> "U+00C9lan", line |-> 2, endLine |-> 2,
            params |-> Fields(<< >>), results |-> NilFields, body |-> Block(<< >>)] >>]

\* /proj/c.go:
\*    1  package main
\*    2  var ErrGone error
\*    3  var oops error
\*    4  func Edge(a, b, c int) (x, y int) {
\*    5      var Failure error
\*    6      res, _ := h()
\*    7      _, _ = fmt.Println(res, Failure)
\*    8      return
\*    9  }
\*   10  func Over() {
\*   11      // password = 1
\*   12      // TODO one, TODO two
\*   13      // password = 2
\*   14
\*   15
\*   16  }
\*   17  type PingRequest struct {
\*   18      ID   int
\*   19      Name string `json:"name" validate:"required"`
\*   20      Note string `json:"note"`
\*   21  }
\*   22  type Pong struct {
\*   23      Code int `json:"code"`
\*   24  }
FileC ==
    [path |-> "/proj/c.go", base |-> "c.go", isGo |-> TRUE, excluded |-> FALSE,
     readable |-> TRUE, parses |-> TRUE,
     lines |-> <<"package main", "var ErrGone error", "var oops error",
                 "func Edge(a, b, c int) (x, y int) {", "var Failure error",
                 "res, _ := h()", "_, _ = fmt.Println(res, Failure)", "return", "}",
                 "func Over() {", "// password = 1", "// TODO one, TODO two",
                 "// password = 2", "", "", "}",
                 "type PingRequest struct {", "ID int",
                 "Name string json:name validate:required", "Note string json:note",
                 "}", "type Pong struct {", "Code int json:code", "}">>,
     pkgName |-> "main", pkgLine |-> 1,
     nodes |->
        << [kind |-> "GenDecl", tok |-> "var", inFunc |-> FALSE,
            specs |-> << [names |-> << [name |-> "ErrGone", line |-> 2] >>,
                          type |-> "error"] >>],
           [kind |-> "GenDecl", tok |-> "var", inFunc |-> FALSE,
            specs |-> << [names |-> << [name |-> "oops", line |-> 3] >>,
                          type |-> "error"] >>],
           [kind |-> "FuncDecl", name |-> "Edge", line |-> 4, endLine |-> 9,
            params |-> Fields(<<3>>), results |-> Fields(<<2>>),
            body |-> Block(<< [kind |-> "DeclStmt"], [kind |-> "AssignStmt"],
                              [kind |-> "AssignStmt"], [kind |-> "ReturnStmt"] >>)],
           [kind |-> "GenDecl", tok |-> "var", inFunc |-> TRUE,
            specs |-> << [names |-> << [name |-> "Failure", line |-> 5] >>,
                          type |-> "error"] >>],
           [kind |-> "AssignStmt", line |-> 6, lhs |-> << Ident("res"), Ident("_") >>,
            rhs |-> << [kind |-> "CallExpr", fun |-> Ident("h")] >>],
           [kind |-> "CallExpr", line |-> 6, fun |-> Ident("h")],
           [kind |-> "AssignStmt", line |-> 7, lhs |-> << Ident("_"), Ident("_") >>,
            rhs |-> << [kind |-> "CallExpr",
                        fun |-> [kind |-> "SelectorExpr", x |-> Ident("fmt"),
                                 sel |-> "Println"]] >>],
           [kind |-> "CallExpr", line |-> 7,
            fun |-> [kind |-> "SelectorExpr", x |-> Ident("fmt"), sel |-> "Println"]],
           [kind |-> "FuncDecl", name |-> "Over", line |-> 10, endLine |-> 16,
            params |-> Fields(<< >>), results |-> NilFields, body |-> Block(<< >>)],
           [kind |-> "GenDecl", tok |-> "type", inFunc |-> FALSE, specs |-> << >>],
           [kind |-> "TypeSpec", name |-> "PingRequest", line |-> 17,
            type |-> "StructType",
            fields |-> Fields(<< [line |-> 18, tag |-> NilTag],
                                 [line |-> 19,
                                  tag |-> [isNil |-> FALSE, jsonMatch |-> TRUE,
                                           jsonName |-> "name", hasValidate |-> TRUE]],
                                 [line |-> 20,
                                  tag |-> [isNil |-> FALSE, jsonMatch |-> TRUE,
                                           jsonName |-> "note",
                                           hasValidate |-> FALSE]] >>)],
           [kind |-> "GenDecl", tok |-> "type", inFunc |-> FALSE, specs |-> << >>],
           [kind |-> "TypeSpec", name |-> "Pong", line |-> 22,
            type |-> "StructType",
            fields |-> Fields(<< [line |-> 23,
                                  tag |-> [isNil |-> FALSE, jsonMatch |-> TRUE,
                                           jsonName |-> "code",
                                           hasValidate |-> FALSE]] >>)] >>]

\* /proj/bad.go, which the parser rejects:
\*    1  package
\*    2  // TODO
FileBad ==
    [path |-> "/proj/bad.go", base |-> "bad.go", isGo |-> TRUE, excluded |-> FALSE,
     readable |-> TRUE, parses |-> FALSE,
     lines |-> <<"package", "// TODO">>, pkgName |-> "", pkgLine |-> 0,
     nodes |-> << >>]

\* /proj/notes.txt: not a Go file.
FileNotes ==
    [path |-> "/proj/notes.txt", base |-> "notes.txt", isGo |-> FALSE,
     excluded |-> FALSE, readable |-> TRUE, parses |-> FALSE,
     lines |-> <<"TODO">>, pkgName |-> "", pkgLine |-> 0, nodes |-> << >>]

\* The directory tree handed to Check: the root, its sub-directories that
\* exist, and its files in the order filepath.Walk visits them.
Worlds ==
    { [root |-> "/proj", dirs |-> d, files |-> f, walkFails |-> w] :
        d \in {{}, {"cmd"}, {"cmd", "internal", "docs"}},
        f \in {<<FileB, FileA, FileNotes>>, <<FileA>>, <<FileNotes>>,
                <<FileB, FileA, FileBad, FileC, FileNotes>>},
        w \in BOOLEAN }

(* ----------------------- library functions, by table ------------------- *)

\* regexp: the patterns that do not compile, and for the others the strings
\* of the project they match.
InvalidPatterns == {"[a-z"}

RegexTable ==
    {<<"^[a-z][a-z0-9]*$", "main">>,
     <<"^[a-z][a-z0-9_]*[.]go$", "a.go">>,
     <<"^[a-z][a-z0-9_]*[.]go$", "bad.go">>,
     <<"^[a-z][a-z0-9_]*[.]go$", "c.go">>,
     <<"^[a-z][a-z0-9_]*\\.go$", "a.go">>,
     <<"^[a-z][a-z0-9_]*\\.go$", "bad.go">>,
     <<"^[a-z][a-z0-9_]*\\.go$", "c.go">>,
     <<"^Err[A-Z]", "ErrGone">>,
     <<"^[a-z][a-z0-9_]*$", "user_name">>,
     <<"^[a-z][a-z0-9_]*$", "name">>,
     <<"^[a-z][a-z0-9_]*$", "note">>,
     <<"^[a-z][a-z0-9_]*$", "code">>,
     <<"^fmt[.]", "fmt.Println">>,
     <<"password *=", "return 0, nil // password = x">>,
     <<"password *=", "// password = 1">>,
     <<"password *=", "// password = 2">>,
     <<"TODO", "// TODO one, TODO two">>,
     <<"TODO", "fmt.Println(b) // TODO">>,
     <<"TODO", "// TODO">>}

RegexCompiles(pattern) == pattern \notin InvalidPatterns

RegexMatches(pattern, str) == RegexCompiles(pattern) /\ <<pattern, str>> \in RegexTable

\* filepath.Match(pattern, name)
GlobTable ==
    {<<"*Request", "UserRequest">>, <<"*Request", "PingRequest">>,
     <<"B*.go", "B.go">>, <<"main.go", "main.go">>}

GlobMatches(pattern, name) == <<pattern, name>> \in GlobTable

\* strings.HasSuffix / strings.HasPrefix
SuffixTable == {<<"Reader", "er">>, <<"UserService", "Service">>}

HasSuffix(str, suffix) == <<str, suffix>> \in SuffixTable

PrefixTable == {<<"fmt.Println", "fmt.Print">>, <<"fmt.Printf", "fmt.Print">>}

HasPrefix(str, prefix) == <<str, prefix>> \in PrefixTable

\* ast.IsExported: the first rune is an upper-case letter.
IsExported(name) ==
    name \in {"Sentinel", "Store", "UserRequest", "Run", "U+00C9lan", "ErrGone", "Edge",
              "Failure", "Over", "PingRequest", "Pong"}

\* isPascalCase: the first byte is in 'A'..'Z'.
isPascalCase(name) ==
    name \in {"Sentinel", "Store", "UserRequest", "Run", "ErrGone", "Edge", "Failure",
              "Over", "PingRequest", "Pong"}

isCamelCase(name) == name \in {"userName", "user_name", "main", "g"}

isSnakeCase(name) == RegexMatches("^[a-z][a-z0-9_]*$", name)

\* x + "." + sel
DotJoin(x, sel) ==
    CASE x = "fmt" /\ sel = "Println" -> "fmt.Println"
      [] x = "fmt" /\ sel = "Printf" -> "fmt.Printf"
      [] x = "os" /\ sel = "Open" -> "os.Open"
      [] OTHER -> "?.?"

\* filepath.Join(targetDir, dir), for the one root of the model
JoinPath(targetDir, dir) ==
    CASE dir = "cmd" -> "/proj/cmd"
      [] dir = "internal" -> "/proj/internal"
      [] dir = "docs" -> "/proj/docs"
      [] OTHER -> "/proj/?"

(* ------------------- operations on one report object ------------------- *)

Init ==
    /\ report \in { NewReport(p) : p \in ProjectPaths }
    /\ ret = NoReport
    /\ retIsReceiver = FALSE
    /\ arg = ""
    /\ lastOp = "new"
    /\ finalized = 0
    /\ moved = FALSE
    /\ config = Config({}, "info")
    /\ world = [root |-> "/proj", dirs |-> {}, files |-> << >>, walkFails |-> FALSE]
    /\ pc = "api"
    /\ goFiles = << >>
    /\ idx = 0
    /\ fileMap = EmptyMap
    /\ probes = << >>
    /\ exitCode = -1

NewReportStep ==
    /\ \E p \in ProjectPaths : report' = NewReport(p)
    /\ ret' = NoReport
    /\ retIsReceiver' = FALSE
    /\ arg' = ""
    /\ lastOp' = "new"
    /\ finalized' = 0
    /\ moved' = FALSE
    /\ UNCHANGED checkerVars

\* The caller's assignment to the exported field TotalFiles, made once on a
\* newly created report.
SetTotalFiles ==
    /\ lastOp = "new"
    /\ \E n \in FileCounts : report' = [report EXCEPT !.TotalFiles = n]
    /\ ret' = NoReport
    /\ retIsReceiver' = FALSE
    /\ arg' = ""
    /\ lastOp' = "files"
    /\ UNCHANGED <<finalized, moved>>
    /\ UNCHANGED checkerVars

AddViolationStep ==
    /\ Len(report.Violations) < MaxViolations
    /\ \E v \in Violations : report' = AddViolation(report, v)
    /\ ret' = NoReport
    /\ retIsReceiver' = FALSE
    /\ arg' = ""
    /\ lastOp' = "add"
    /\ UNCHANGED <<finalized, moved>>
    /\ UNCHANGED checkerVars

FinalizeStep ==
    /\ finalized < MaxFinalize
    /\ \E r \in Finalize(report) :
          /\ report' = r
          /\ moved' = (r.Violations # report.Violations)
    /\ ret' = NoReport
    /\ retIsReceiver' = FALSE
    /\ arg' = ""
    /\ lastOp' = "finalize"
    /\ finalized' = finalized + 1
    /\ UNCHANGED checkerVars

FilterStep ==
    /\ \E minSeverity \in SeverityStrings :
          \E o \in Filter(report, minSeverity) :
              /\ report' = o.recv
              /\ ret' = o.out
              /\ retIsReceiver' = o.same
              /\ arg' = minSeverity
    /\ lastOp' = "filter"
    /\ UNCHANGED <<finalized, moved>>
    /\ UNCHANGED checkerVars

Next ==
    \/ NewReportStep
    \/ SetTotalFiles
    \/ AddViolationStep
    \/ FinalizeStep
    \/ FilterStep

Spec == Init /\ [][Next]_vars

(* --------------------------- checker.Checker --------------------------- *)

Max(a, b) == IF a > b THEN a ELSE b

\* report.Violation{...} as the rule checks build it.
Violation(file, line, rule, category, severity, message) ==
    [File |-> file, Line |-> line, Rule |-> rule, Category |-> category,
     Severity |-> ParseSeverity(severity), Message |-> message]

checkFileName(cfg, f) ==
    LET rule == cfg.Naming.Rules.FileName
    IN IF ~RegexCompiles(rule.Pattern) THEN << >>
       ELSE IF ~RegexMatches(rule.Pattern, f.base)
            THEN << Violation(f.path, 1, "file_name", "naming", rule.Severity,
                              <<rule.Message>>) >>
            ELSE << >>

checkPackageName(cfg, f) ==
    LET rule == cfg.Naming.Rules.PackageName
    IN IF ~RegexCompiles(rule.Pattern) THEN << >>
       ELSE IF ~RegexMatches(rule.Pattern, f.pkgName)
            THEN << Violation(f.path, f.pkgLine, "package_name", "naming",
                              rule.Severity, <<rule.Message, f.pkgName>>) >>
            ELSE << >>

RECURSIVE checkNestingLevel(_, _)
RECURSIVE NestingLoop(_, _, _, _)

RECURSIVE NestingLoopElseDeeper(_, _, _, _)

\* NestingLoop with the else block taken one level deeper than the if's body.
NestingLoopElseDeeper(list, i, currentLevel, maxLevel) ==
    IF i > Len(list) THEN maxLevel
    ELSE LET stmt == list[i]
             after ==
                CASE stmt.kind = "IfStmt" ->
                        LET level == checkNestingLevel(stmt.Body, currentLevel + 1)
                            m == Max(maxLevel, level)
                        IN IF stmt.Else.kind = "BlockStmt"
                           THEN Max(m, checkNestingLevel(stmt.Else, currentLevel + 2))
                           ELSE m
                  [] stmt.kind \in {"ForStmt", "RangeStmt", "SwitchStmt", "SelectStmt"} ->
                        Max(maxLevel, checkNestingLevel(stmt.Body, currentLevel + 1))
                  [] OTHER -> maxLevel
         IN NestingLoopElseDeeper(list, i + 1, currentLevel, after)

\* The loop of checkNestingLevel over list[i..], maxLevel so far.
NestingLoop(list, i, currentLevel, maxLevel) ==
    IF i > Len(list) THEN maxLevel
    ELSE LET stmt == list[i]
             after ==
                CASE stmt.kind = "IfStmt" ->
                        LET level == checkNestingLevel(stmt.Body, currentLevel + 1)
                            m == Max(maxLevel, level)
                        IN IF stmt.Else.kind = "BlockStmt"
                           THEN Max(m, checkNestingLevel(stmt.Else, currentLevel + 1))
                           ELSE m
                  [] stmt.kind \in {"ForStmt", "RangeStmt", "SwitchStmt", "SelectStmt"} ->
                        Max(maxLevel, checkNestingLevel(stmt.Body, currentLevel + 1))
                  [] OTHER -> maxLevel
         IN NestingLoop(list, i + 1, currentLevel, after)

checkNestingLevel(block, currentLevel) ==
    IF block.isNil THEN currentLevel
    ELSE NestingLoop(block.List, 1, currentLevel, currentLevel)

\* checkFunction with the line-count comparison made non-strict.
checkFunctionFiresAtLimit(cfg, fn, f) ==
    LET exported ==
            IF cfg.Naming.Enabled /\ cfg.Naming.Rules.ExportedNames.Enabled
               /\ IsExported(fn.name) /\ ~isPascalCase(fn.name)
            THEN << Violation(f.path, fn.line, "exported_name", "naming",
                              cfg.Naming.Rules.ExportedNames.Severity,
                              <<"exported function", fn.name>>) >>
            ELSE << >>
        lineCount == fn.endLine - fn.line
        lines ==
            IF cfg.Structure.Enabled /\ cfg.Structure.Rules.MaxFunctionLines.Enabled
               /\ lineCount >= cfg.Structure.Rules.MaxFunctionLines.Limit
            THEN << Violation(f.path, fn.line, "max_function_lines", "structure",
                              cfg.Structure.Rules.MaxFunctionLines.Severity,
                              <<"function lines", fn.name, lineCount,
                                cfg.Structure.Rules.MaxFunctionLines.Limit>>) >>
            ELSE << >>
        paramCount == Len(fn.params.List)
        params ==
            IF cfg.Structure.Enabled /\ cfg.Structure.Rules.MaxParameters.Enabled
               /\ ~fn.params.isNil
               /\ paramCount > cfg.Structure.Rules.MaxParameters.Limit
            THEN << Violation(f.path, fn.line, "max_parameters", "structure",
                              cfg.Structure.Rules.MaxParameters.Severity,
                              <<"function parameters", fn.name, paramCount,
                                cfg.Structure.Rules.MaxParameters.Limit>>) >>
            ELSE << >>
        resultCount == Len(fn.results.List)
        results ==
            IF cfg.Structure.Enabled /\ cfg.Structure.Rules.MaxReturnValues.Enabled
               /\ ~fn.results.isNil
               /\ resultCount > cfg.Structure.Rules.MaxReturnValues.Limit
            THEN << Violation(f.path, fn.line, "max_return_values", "structure",
                              cfg.Structure.Rules.MaxReturnValues.Severity,
                              <<"function results", fn.name, resultCount,
                                cfg.Structure.Rules.MaxReturnValues.Limit>>) >>
            ELSE << >>
        maxNest == checkNestingLevel(fn.body, 0)
        nesting ==
            IF cfg.Structure.Enabled /\ cfg.Structure.Rules.MaxNestingLevel.Enabled
               /\ maxNest > cfg.Structure.Rules.MaxNestingLevel.Limit
            THEN << Violation(f.path, fn.line, "max_nesting_level", "structure",
                              cfg.Structure.Rules.MaxNestingLevel.Severity,
                              <<"function nesting", fn.name, maxNest,
                                cfg.Structure.Rules.MaxNestingLevel.Limit>>) >>
            ELSE << >>
    IN exported \o lines \o params \o results \o nesting

checkFunction(cfg, fn, f) ==
    LET exported ==
            IF cfg.Naming.Enabled /\ cfg.Naming.Rules.ExportedNames.Enabled
               /\ IsExported(fn.name) /\ ~isPascalCase(fn.name)
            THEN << Violation(f.path, fn.line, "exported_name", "naming",
                              cfg.Naming.Rules.ExportedNames.Severity,
                              <<"exported function", fn.name>>) >>
            ELSE << >>
        lineCount == fn.endLine - fn.line
        lines ==
            IF cfg.Structure.Enabled /\ cfg.Structure.Rules.MaxFunctionLines.Enabled
               /\ lineCount > cfg.Structure.Rules.MaxFunctionLines.Limit
            THEN << Violation(f.path, fn.line, "max_function_lines", "structure",
                              cfg.Structure.Rules.MaxFunctionLines.Severity,
                              <<"function lines", fn.name, lineCount,
                                cfg.Structure.Rules.MaxFunctionLines.Limit>>) >>
            ELSE << >>
        paramCount == Len(fn.params.List)
        params ==
            IF cfg.Structure.Enabled /\ cfg.Structure.Rules.MaxParameters.Enabled
               /\ ~fn.params.isNil
               /\ paramCount > cfg.Structure.Rules.MaxParameters.Limit
            THEN << Violation(f.path, fn.line, "max_parameters", "structure",
                              cfg.Structure.Rules.MaxParameters.Severity,
                              <<"function parameters", fn.name, paramCount,
                                cfg.Structure.Rules.MaxParameters.Limit>>) >>
            ELSE << >>
        resultCount == Len(fn.results.List)
        results ==
            IF cfg.Structure.Enabled /\ cfg.Structure.Rules.MaxReturnValues.Enabled
               /\ ~fn.results.isNil
               /\ resultCount > cfg.Structure.Rules.MaxReturnValues.Limit
            THEN << Violation(f.path, fn.line, "max_return_values", "structure",
                              cfg.Structure.Rules.MaxReturnValues.Severity,
                              <<"function results", fn.name, resultCount,
                                cfg.Structure.Rules.MaxReturnValues.Limit>>) >>
            ELSE << >>
        maxNest == checkNestingLevel(fn.body, 0)
        nesting ==
            IF cfg.Structure.Enabled /\ cfg.Structure.Rules.MaxNestingLevel.Enabled
               /\ maxNest > cfg.Structure.Rules.MaxNestingLevel.Limit
            THEN << Violation(f.path, fn.line, "max_nesting_level", "structure",
                              cfg.Structure.Rules.MaxNestingLevel.Severity,
                              <<"function nesting", fn.name, maxNest,
                                cfg.Structure.Rules.MaxNestingLevel.Limit>>) >>
            ELSE << >>
    IN exported \o lines \o params \o results \o nesting

checkJSONTag(cfg, tag, line, f) ==
    LET rule == cfg.StructTags.Rules.JSONTag
        isValid == CASE rule.Style = "snake_case" -> isSnakeCase(tag.jsonName)
                     [] rule.Style = "camelCase" -> isCamelCase(tag.jsonName)
                     [] OTHER -> TRUE
    IN IF ~tag.jsonMatch THEN << >>
       ELSE IF tag.jsonName = "-" \/ tag.jsonName = "" THEN << >>
       ELSE IF ~isValid
            THEN << Violation(f.path, line, "json_tag", "struct_tags", rule.Severity,
                              <<"json tag", tag.jsonName, rule.Style>>) >>
            ELSE << >>

checkValidationTag(cfg, tag, structName, line, f) ==
    LET rule == cfg.StructTags.Rules.ValidationTag
        isTarget == \E i \in 1..Len(rule.RequiredFor) :
                        GlobMatches(rule.RequiredFor[i], structName)
    IN IF ~isTarget THEN << >>
       ELSE IF ~tag.hasValidate
            THEN << Violation(f.path, line, "validation_tag", "struct_tags",
                              rule.Severity, <<rule.Message>>) >>
            ELSE << >>

RECURSIVE StructTagsLoop(_, _, _, _, _)
\* The loop of checkStructTags over fields[i..].
StructTagsLoop(cfg, fields, i, structName, f) ==
    IF i > Len(fields) THEN << >>
    ELSE LET field == fields[i]
             here ==
                IF field.tag.isNil THEN << >>
                ELSE (IF cfg.StructTags.Rules.JSONTag.Enabled
                      THEN checkJSONTag(cfg, field.tag, field.line, f) ELSE << >>)
                     \o (IF cfg.StructTags.Rules.ValidationTag.Enabled
                         THEN checkValidationTag(cfg, field.tag, structName, field.line, f)
                         ELSE << >>)
         IN here \o StructTagsLoop(cfg, fields, i + 1, structName, f)

checkStructTags(cfg, st, structName, f) ==
    IF st.isNil THEN << >> ELSE StructTagsLoop(cfg, st.List, 1, structName, f)

checkTypeSpec(cfg, ts, f) ==
    LET rule == cfg.Naming.Rules.InterfaceName
        validSuffix == \E i \in 1..Len(rule.Suffixes) : HasSuffix(ts.name, rule.Suffixes[i])
        interface ==
            IF ts.type = "InterfaceType" /\ cfg.Naming.Enabled /\ rule.Enabled
               /\ ~validSuffix /\ IsExported(ts.name)
            THEN << Violation(f.path, ts.line, "interface_name", "naming", rule.Severity,
                              <<"interface suffix", ts.name>>) >>
            ELSE << >>
        struct ==
            IF ts.type = "StructType" /\ cfg.StructTags.Enabled
            THEN checkStructTags(cfg, ts.fields, ts.name, f)
            ELSE << >>
    IN interface \o struct

checkErrorVarName(cfg, name, f) ==
    LET rule == cfg.Naming.Rules.ErrorVar
    IN IF ~IsExported(name.name) THEN << >>
       ELSE IF ~RegexCompiles(rule.Pattern) THEN << >>
       ELSE IF ~RegexMatches(rule.Pattern, name.name)
            THEN << Violation(f.path, name.line, "error_var", "naming", rule.Severity,
                              <<"error variable", name.name>>) >>
            ELSE << >>

RECURSIVE NamesLoop(_, _, _, _)
\* The inner loop of checkGenDecl over vs.Names[i..].
NamesLoop(cfg, vs, i, f) ==
    IF i > Len(vs.names) THEN << >>
    ELSE (IF cfg.Naming.Enabled /\ cfg.Naming.Rules.ErrorVar.Enabled
             /\ vs.type = "error"
          THEN checkErrorVarName(cfg, vs.names[i], f) ELSE << >>)
         \o NamesLoop(cfg, vs, i + 1, f)

RECURSIVE SpecsLoop(_, _, _, _)
\* The outer loop of checkGenDecl over gd.Specs[i..].
SpecsLoop(cfg, specs, i, f) ==
    IF i > Len(specs) THEN << >>
    ELSE NamesLoop(cfg, specs[i], 1, f) \o SpecsLoop(cfg, specs, i + 1, f)

checkGenDecl(cfg, gd, f) ==
    IF gd.tok # "var" THEN << >> ELSE SpecsLoop(cfg, gd.specs, 1, f)

getCallExprString(call) ==
    CASE call.fun.kind = "Ident" -> call.fun.name
      [] call.fun.kind = "SelectorExpr" /\ call.fun.x.kind = "Ident" ->
            DotJoin(call.fun.x.name, call.fun.sel)
      [] OTHER -> ""

RECURSIVE AssignLoop(_, _, _, _)
\* The loop of checkAssignment over as.Lhs[i..] (i counts from 1 here).
AssignLoop(cfg, as, i, f) ==
    IF i > Len(as.lhs) THEN << >>
    ELSE LET lhs == as.lhs[i]
             rule == cfg.ErrorHandling.Rules.NoIgnoredErrors
             here ==
                IF lhs.kind # "Ident" THEN << >>
                ELSE IF lhs.name # "_" THEN << >>
                ELSE IF ~(i <= Len(as.rhs)) THEN << >>
                ELSE IF as.rhs[i].kind # "CallExpr" THEN << >>
                ELSE LET callStr == getCallExprString(as.rhs[i])
                         allowed == \E k \in 1..Len(rule.AllowedPatterns) :
                                        RegexMatches(rule.AllowedPatterns[k], callStr)
                     IN IF ~allowed
                        THEN << Violation(f.path, as.line, "no_ignored_errors",
                                          "error_handling", rule.Severity,
                                          <<rule.Message>>) >>
                        ELSE << >>
         IN here \o AssignLoop(cfg, as, i + 1, f)

checkAssignment(cfg, as, f) ==
    IF ~cfg.ErrorHandling.Enabled \/ ~cfg.ErrorHandling.Rules.NoIgnoredErrors.Enabled
    THEN << >>
    ELSE AssignLoop(cfg, as, 1, f)

checkCallExpr(cfg, call, f) ==
    LET callStr == getCallExprString(call)
        panicRule == cfg.ErrorHandling.Rules.NoPanic
        allowed == \E i \in 1..Len(panicRule.AllowedIn) :
                       GlobMatches(panicRule.AllowedIn[i], f.base)
        panic ==
            IF cfg.ErrorHandling.Enabled /\ panicRule.Enabled /\ callStr = "panic"
               /\ ~allowed
            THEN << Violation(f.path, call.line, "no_panic", "error_handling",
                              panicRule.Severity, <<panicRule.Message>>) >>
            ELSE << >>
        println ==
            IF cfg.Logging.Enabled /\ cfg.Logging.Rules.NoFmtPrintln.Enabled
               /\ HasPrefix(callStr, "fmt.Print")
            THEN << Violation(f.path, call.line, "no_fmt_println", "logging",
                              cfg.Logging.Rules.NoFmtPrintln.Severity,
                              <<cfg.Logging.Rules.NoFmtPrintln.Message>>) >>
            ELSE << >>
    IN panic \o println

RECURSIVE InspectLoop(_, _, _, _)
\* ast.Inspect with the callback of checkFile, over nodes[i..] in the order
\* the traversal visits them.
InspectLoop(cfg, nodes, i, f) ==
    IF i > Len(nodes) THEN << >>
    ELSE LET n == nodes[i]
             here == CASE n.kind = "FuncDecl" -> checkFunction(cfg, n, f)
                       [] n.kind = "GenDecl" -> checkGenDecl(cfg, n, f)
                       [] n.kind = "TypeSpec" -> checkTypeSpec(cfg, n, f)
                       [] n.kind = "AssignStmt" -> checkAssignment(cfg, n, f)
                       [] n.kind = "CallExpr" -> checkCallExpr(cfg, n, f)
                       [] OTHER -> << >>
         IN here \o InspectLoop(cfg, nodes, i + 1, f)

\* checkFile: err is whether it returns an error, cached whether it stored
\* the file's lines in fileMap, violations what it added to the report.
checkFile(cfg, f) ==
    IF ~f.readable THEN [err |-> TRUE, cached |-> FALSE, violations |-> << >>]
    ELSE IF ~f.parses THEN [err |-> TRUE, cached |-> TRUE, violations |-> << >>]
    ELSE [err |-> FALSE, cached |-> TRUE,
          violations |->
              (IF cfg.Naming.Enabled /\ cfg.Naming.Rules.FileName.Enabled
               THEN checkFileName(cfg, f) ELSE << >>)
              \o (IF cfg.Naming.Enabled /\ cfg.Naming.Rules.PackageName.Enabled
                  THEN checkPackageName(cfg, f) ELSE << >>)
              \o InspectLoop(cfg, f.nodes, 1, f)]

RECURSIVE DirsLoop(_, _, _, _, _)
\* One loop of checkDirectory over rule.Dirs[i..]: the findings it adds.
DirsLoop(rule, name, i, targetDir, w) ==
    IF i > Len(rule.Dirs) THEN << >>
    ELSE (IF rule.Dirs[i] \notin w.dirs
          THEN << Violation(targetDir, 1, name, "directory", rule.Severity,
                            <<"directory missing", rule.Dirs[i]>>) >>
          ELSE << >>)
         \o DirsLoop(rule, name, i + 1, targetDir, w)

\* The paths one loop of checkDirectory hands to os.Stat.
DirsProbed(rule, targetDir) ==
    [i \in 1..Len(rule.Dirs) |-> JoinPath(targetDir, rule.Dirs[i])]

\* checkDirectory without the test of RequiredDirs.Enabled.
checkDirectoryIgnoresFlag(cfg, targetDir, w) ==
    LET required == cfg.Directory.Rules.RequiredDirs
        recommended == cfg.Directory.Rules.RecommendedDirs
    IN [violations |->
            DirsLoop(required, "required_dirs", 1, targetDir, w)
            \o (IF recommended.Enabled
                THEN DirsLoop(recommended, "recommended_dirs", 1, targetDir, w)
                ELSE << >>),
        probes |->
            DirsProbed(required, targetDir)
            \o (IF recommended.Enabled THEN DirsProbed(recommended, targetDir)
                ELSE << >>)]

checkDirectory(cfg, targetDir, w) ==
    LET required == cfg.Directory.Rules.RequiredDirs
        recommended == cfg.Directory.Rules.RecommendedDirs
    IN [violations |->
            (IF required.Enabled
             THEN DirsLoop(required, "required_dirs", 1, targetDir, w) ELSE << >>)
            \o (IF recommended.Enabled
                THEN DirsLoop(recommended, "recommended_dirs", 1, targetDir, w)
                ELSE << >>),
        probes |->
            (IF required.Enabled THEN DirsProbed(required, targetDir) ELSE << >>)
            \o (IF recommended.Enabled THEN DirsProbed(recommended, targetDir)
                ELSE << >>)]

RECURSIVE LinesLoopFromZero(_, _, _, _)
\* LinesLoop reporting the loop index (from 0) as the line.
LinesLoopFromZero(rule, lines, i, filePath) ==
    IF i > Len(lines) THEN << >>
    ELSE (IF RegexMatches(rule.Pattern, lines[i])
          THEN << Violation(filePath, i - 1, rule.Name, "custom", rule.Severity,
                            <<rule.Message>>) >>
          ELSE << >>)
         \o LinesLoopFromZero(rule, lines, i + 1, filePath)

RECURSIVE LinesLoop(_, _, _, _)
\* The inner loop of checkCustomRules over lines[i..].
LinesLoop(rule, lines, i, filePath) ==
    IF i > Len(lines) THEN << >>
    ELSE (IF RegexMatches(rule.Pattern, lines[i])
          THEN << Violation(filePath, i, rule.Name, "custom", rule.Severity,
                            <<rule.Message>>) >>
          ELSE << >>)
         \o LinesLoop(rule, lines, i + 1, filePath)

RECURSIVE CustomLoop(_, _, _, _)
\* The outer loop of checkCustomRules over cfg.CustomRules[i..].
CustomLoop(cfg, i, cache, f) ==
    IF i > Len(cfg.CustomRules) THEN << >>
    ELSE LET rule == cfg.CustomRules[i]
             excluded == \E k \in 1..Len(rule.ExcludeFiles) :
                             GlobMatches(rule.ExcludeFiles[k], f.base)
             lines == IF f.path \in DOMAIN cache THEN cache[f.path] ELSE << >>
             here == IF ~rule.Enabled THEN << >>
                     ELSE IF excluded THEN << >>
                     ELSE IF ~RegexCompiles(rule.Pattern) THEN << >>
                     ELSE LinesLoop(rule, lines, 1, f.path)
         IN here \o CustomLoop(cfg, i + 1, cache, f)

checkCustomRules(cfg, cache, f) == CustomLoop(cfg, 1, cache, f)

\* collectGoFiles: the paths of the .go files no exclude pattern matches, in
\* walk order.
collectGoFiles(w) ==
    LET kept == SelectSeq(w.files, LAMBDA f : f.isGo /\ ~f.excluded)
    IN [i \in 1..Len(kept) |-> kept[i].path]

\* The file of the project at a path.
FileAt(w, path) ==
    LET i == CHOOSE k \in 1..Len(w.files) : w.files[k].path = path
    IN w.files[i]

RECURSIVE AddAll(_, _, _)
\* AddViolation for vs[i..], in order.
AddAll(r, vs, i) ==
    IF i > Len(vs) THEN r ELSE AddAll(AddViolation(r, vs[i]), vs, i + 1)

(* ------------------------ main and Checker.Check ----------------------- *)

RECURSIVE FlagSets(_)
\* The sets of at most k flags.
FlagSets(k) ==
    IF k = 0 THEN {{}}
    ELSE LET smaller == FlagSets(k - 1)
         IN smaller \cup { d \cup {f} : d \in smaller, f \in Flags }

MinSeverityInputs == {"info", "error"}

\* The configuration documents handed to the checker: every document with at
\* most MaxDisabled flags false, and the all-enabled document with one rule's
\* pattern broken.
Configs ==
    { Config(d, m) : d \in FlagSets(MaxDisabled), m \in MinSeverityInputs }
    \cup { BreakPatterns(Config({}, m), {b}) : b \in PatternSlots, m \in MinSeverityInputs }

InitCheck ==
    /\ config \in Configs
    /\ world \in Worlds
    /\ pc = "start"
    /\ report = NoReport
    /\ ret = NoReport
    /\ retIsReceiver = FALSE
    /\ arg = ""
    /\ lastOp = "none"
    /\ finalized = 0
    /\ moved = FALSE
    /\ goFiles = << >>
    /\ idx = 0
    /\ fileMap = EmptyMap
    /\ probes = << >>
    /\ exitCode = -1

\* Check, line 379: the report is created.
CheckNewReport ==
    /\ pc = "start"
    /\ report' = NewReport(world.root)
    /\ lastOp' = "new"
    /\ pc' = "directory"
    /\ UNCHANGED <<ret, retIsReceiver, arg, finalized, moved>>
    /\ UNCHANGED <<config, world, goFiles, idx, fileMap, probes, exitCode>>

\* Check, lines 382-384: the directory check, when the category is enabled.
CheckDirectory ==
    /\ pc = "directory"
    /\ IF config.Directory.Enabled
       THEN LET out == checkDirectory(config, world.root, world)
            IN /\ report' = AddAll(report, out.violations, 1)
               /\ probes' = probes \o out.probes
       ELSE UNCHANGED <<report, probes>>
    /\ lastOp' = "add"
    /\ pc' = "collect"
    /\ UNCHANGED <<ret, retIsReceiver, arg, finalized, moved>>
    /\ UNCHANGED <<config, world, goFiles, idx, fileMap, exitCode>>

\* Check, lines 387-392: the files are collected; a walk error ends Check.
CheckCollect ==
    /\ pc = "collect"
    /\ IF world.walkFails
       THEN /\ pc' = "check_failed"
            /\ UNCHANGED <<report, goFiles, idx, lastOp>>
       ELSE /\ goFiles' = collectGoFiles(world)
            /\ report' = [report EXCEPT !.TotalFiles = Len(goFiles')]
            /\ idx' = 1
            /\ lastOp' = "files"
            /\ pc' = "files"
    /\ UNCHANGED <<ret, retIsReceiver, arg, finalized, moved>>
    /\ UNCHANGED <<config, world, fileMap, probes, exitCode>>

\* The checkFile loop returning from Check on the first file that fails.
CheckFileStopsOnError ==
    /\ pc = "files"
    /\ idx <= Len(goFiles)
    /\ LET f == FileAt(world, goFiles[idx])
           out == checkFile(config, f)
       IN /\ report' = AddAll(report, out.violations, 1)
          /\ fileMap' = IF out.cached THEN (f.path :> f.lines) @@ fileMap ELSE fileMap
          /\ pc' = IF out.err THEN "check_failed" ELSE pc
    /\ idx' = idx + 1
    /\ lastOp' = "add"
    /\ UNCHANGED <<ret, retIsReceiver, arg, finalized, moved>>
    /\ UNCHANGED <<config, world, goFiles, probes, exitCode>>

\* The checkFile loop with the directory check repeated for every file.
CheckFileWithDirectoryCheck ==
    /\ pc = "files"
    /\ idx <= Len(goFiles)
    /\ LET f == FileAt(world, goFiles[idx])
           out == checkFile(config, f)
           dirs == checkDirectory(config, world.root, world)
       IN /\ report' = AddAll(AddAll(report, dirs.violations, 1), out.violations, 1)
          /\ fileMap' = IF out.cached THEN (f.path :> f.lines) @@ fileMap ELSE fileMap
    /\ idx' = idx + 1
    /\ lastOp' = "add"
    /\ UNCHANGED <<ret, retIsReceiver, arg, finalized, moved>>
    /\ UNCHANGED <<config, world, pc, goFiles, probes, exitCode>>

\* Check, lines 395-399: one iteration of the checkFile loop.
CheckFile ==
    /\ pc = "files"
    /\ idx <= Len(goFiles)
    /\ LET f == FileAt(world, goFiles[idx])
           out == checkFile(config, f)
       IN /\ report' = AddAll(report, out.violations, 1)
          /\ fileMap' = IF out.cached THEN (f.path :> f.lines) @@ fileMap ELSE fileMap
    /\ idx' = idx + 1
    /\ lastOp' = "add"
    /\ UNCHANGED <<ret, retIsReceiver, arg, finalized, moved>>
    /\ UNCHANGED <<config, world, pc, goFiles, probes, exitCode>>

\* The end of the checkFile loop with a Finalize of its own.
CheckFilesDoneFinalizes ==
    /\ pc = "files"
    /\ idx > Len(goFiles)
    /\ \E r \in Finalize(report) :
          /\ report' = r
          /\ moved' = (r.Violations # report.Violations)
    /\ finalized' = finalized + 1
    /\ lastOp' = "finalize"
    /\ pc' = "custom"
    /\ idx' = 1
    /\ UNCHANGED <<ret, retIsReceiver, arg>>
    /\ UNCHANGED <<config, world, goFiles, fileMap, probes, exitCode>>

\* The checkFile loop ends and the custom-rule loop begins.
CheckFilesDone ==
    /\ pc = "files"
    /\ idx > Len(goFiles)
    /\ pc' = "custom"
    /\ idx' = 1
    /\ UNCHANGED reportVars
    /\ UNCHANGED <<config, world, goFiles, fileMap, probes, exitCode>>

\* Check, lines 402-404: one iteration of the checkCustomRules loop.
CheckCustom ==
    /\ pc = "custom"
    /\ idx <= Len(goFiles)
    /\ report' = AddAll(report,
                         checkCustomRules(config, fileMap, FileAt(world, goFiles[idx])),
                         1)
    /\ idx' = idx + 1
    /\ lastOp' = "add"
    /\ UNCHANGED <<ret, retIsReceiver, arg, finalized, moved>>
    /\ UNCHANGED <<config, world, pc, goFiles, fileMap, probes, exitCode>>

\* Check, lines 406-407: Finalize, and the report is returned.
CheckFinalize ==
    /\ pc = "custom"
    /\ idx > Len(goFiles)
    /\ \E r \in Finalize(report) :
          /\ report' = r
          /\ moved' = (r.Violations # report.Violations)
    /\ finalized' = finalized + 1
    /\ lastOp' = "finalize"
    /\ pc' = "returned"
    /\ UNCHANGED <<ret, retIsReceiver, arg>>
    /\ UNCHANGED <<config, world, goFiles, idx, fileMap, probes, exitCode>>

\* main, lines 169-172: Check returned an error.
MainCheckFailed ==
    /\ pc = "check_failed"
    /\ exitCode' = 1
    /\ pc' = "exited"
    /\ UNCHANGED reportVars
    /\ UNCHANGED <<config, world, goFiles, idx, fileMap, probes>>

\* main, line 175: the report is filtered by the configured threshold.
MainFilter ==
    /\ pc = "returned"
    /\ \E o \in Filter(report, ParseSeverity(config.Settings.MinSeverity)) :
          /\ report' = o.recv
          /\ ret' = o.out
          /\ retIsReceiver' = o.same
    /\ arg' = ParseSeverity(config.Settings.MinSeverity)
    /\ lastOp' = "filter"
    /\ pc' = "filtered"
    /\ UNCHANGED <<finalized, moved>>
    /\ UNCHANGED <<config, world, goFiles, idx, fileMap, probes, exitCode>>

\* main, line 190: the process exits with the filtered report's exit code.
MainExit ==
    /\ pc = "filtered"
    /\ exitCode' = ExitCode(ret)
    /\ pc' = "exited"
    /\ UNCHANGED reportVars
    /\ UNCHANGED <<config, world, goFiles, idx, fileMap, probes>>

NextCheck ==
    \/ CheckNewReport
    \/ CheckDirectory
    \/ CheckCollect
    \/ CheckFile
    \/ CheckFilesDone
    \/ CheckCustom
    \/ CheckFinalize
    \/ MainCheckFailed
    \/ MainFilter
    \/ MainExit

SpecCheck == InitCheck /\ [][NextCheck]_vars

(* -------------------- main: loading the configuration ------------------ *)

\* A rule of a configuration that leaves it out: the zero value.
ZeroRule == [Enabled |-> FALSE, Severity |-> "", Message |-> ""]

\* rules.DefaultConfig()
DefaultConfig ==
    [Settings |-> [MinSeverity |-> "info"],
     Naming |->
        [Enabled |-> TRUE,
         Rules |->
            [PackageName |->
                [Enabled |-> TRUE, Severity |-> "error", Message |-> "package name",
                 Pattern |-> "^[a-z][a-z0-9]*$"],
             ExportedNames |-> ZeroRule,
             FileName |->
                [Enabled |-> TRUE, Severity |-> "warning", Message |-> "file name",
                 Pattern |-> "^[a-z][a-z0-9_]*\\.go$"],
             InterfaceName |-> ZeroRule @@ [Suffixes |-> << >>],
             ErrorVar |-> ZeroRule @@ [Pattern |-> ""]]],
     Structure |->
        [Enabled |-> TRUE,
         Rules |->
            [MaxFunctionLines |->
                [Enabled |-> TRUE, Severity |-> "warning", Message |-> "lines",
                 Limit |-> 50],
             MaxNestingLevel |->
                [Enabled |-> TRUE, Severity |-> "warning", Message |-> "nesting",
                 Limit |-> 3],
             MaxParameters |-> ZeroRule @@ [Limit |-> 0],
             MaxReturnValues |-> ZeroRule @@ [Limit |-> 0]]],
     ErrorHandling |->
        [Enabled |-> TRUE,
         Rules |->
            [NoIgnoredErrors |->
                [Enabled |-> TRUE, Severity |-> "error", Message |-> "ignored error",
                 AllowedPatterns |-> << >>],
             NoPanic |-> ZeroRule @@ [AllowedIn |-> << >>]]],
     Logging |-> [Enabled |-> FALSE, Rules |-> [NoFmtPrintln |-> ZeroRule]],
     Directory |->
        [Enabled |-> FALSE,
         Rules |-> [RequiredDirs |-> ZeroRule @@ [Dirs |-> << >>],
                    RecommendedDirs |-> ZeroRule @@ [Dirs |-> << >>]]],
     StructTags |->
        [Enabled |-> FALSE,
         Rules |-> [JSONTag |-> ZeroRule @@ [Style |-> ""],
                    ValidationTag |-> ZeroRule @@ [RequiredFor |-> << >>]]],
     CustomRules |-> << >>]

\* No configuration yet (cfg == nil).
NoConfig == [none |-> TRUE]

\* main's list of default configuration paths, in the order it tries them.
DefaultPaths ==
    <<"go-standards.yaml", "go-standards.yml", ".go-standards.yaml", ".go-standards.yml">>

\* The -config argument: none, or a path.
ConfigPathArgs == {"", "my.yaml"}

\* The configuration files of the working directory: which paths exist, and
\* for each whether it holds a document yaml.Unmarshal accepts ("ok") or not
\* ("bad").
ConfigFileSets ==
    UNION { [paths -> {"ok", "bad"}] :
              paths \in SUBSET {"my.yaml", "go-standards.yaml", ".go-standards.yml"} }

\* The document an accepted configuration file holds.
LoadedDocument == Config({"logging"}, "error")

\* rules.LoadConfig(path): os.ReadFile, then yaml.Unmarshal.
LoadConfig(w, path) ==
    IF path \notin DOMAIN w.configFiles THEN [err |-> TRUE, cfg |-> NoConfig]
    ELSE IF w.configFiles[path] = "bad" THEN [err |-> TRUE, cfg |-> NoConfig]
    ELSE [err |-> FALSE, cfg |-> LoadedDocument]

RECURSIVE DefaultPathsLoop(_, _)
\* main's loop over defaultPaths[i..], then the fall-back to DefaultConfig.
DefaultPathsLoop(w, i) ==
    IF i > Len(DefaultPaths) THEN DefaultConfig
    ELSE IF DefaultPaths[i] \in DOMAIN w.configFiles
              /\ ~LoadConfig(w, DefaultPaths[i]).err
         THEN LoadConfig(w, DefaultPaths[i]).cfg
         ELSE DefaultPathsLoop(w, i + 1)

\* The working directories and arguments main starts in.
MainWorlds ==
    { [root |-> "/proj", dirs |-> {"cmd"}, files |-> <<FileA>>, walkFails |-> wf,
       configPath |-> p, configFiles |-> c] :
        wf \in BOOLEAN, p \in ConfigPathArgs, c \in ConfigFileSets }

InitMain ==
    /\ config = NoConfig
    /\ world \in MainWorlds
    /\ pc = "config"
    /\ report = NoReport
    /\ ret = NoReport
    /\ retIsReceiver = FALSE
    /\ arg = ""
    /\ lastOp = "none"
    /\ finalized = 0
    /\ moved = FALSE
    /\ goFiles = << >>
    /\ idx = 0
    /\ fileMap = EmptyMap
    /\ probes = << >>
    /\ exitCode = -1

\* main, lines 103-139: the configuration is loaded; with an explicit path a
\* load error ends the process with status 1.
MainLoadConfig ==
    /\ pc = "config"
    /\ IF world.configPath # ""
       THEN LET out == LoadConfig(world, world.configPath)
            IN IF out.err
               THEN /\ exitCode' = 1
                    /\ pc' = "exited"
                    /\ UNCHANGED config
               ELSE /\ config' = out.cfg
                    /\ pc' = "start"
                    /\ UNCHANGED exitCode
       ELSE /\ config' = DefaultPathsLoop(world, 1)
            /\ pc' = "start"
            /\ UNCHANGED exitCode
    /\ UNCHANGED reportVars
    /\ UNCHANGED <<world, goFiles, idx, fileMap, probes>>

NextMain ==
    \/ MainLoadConfig
    \/ NextCheck

SpecMain == InitMain /\ [][NextMain]_vars

(* ------------------- checkFunction on one declaration ------------------ *)

\* The largest number of statements in the body of a declaration.
MaxStmts == 3

\* The limits of max_nesting_level the declaration is checked against.
NestingLimits == {0, 1}

\* A case clause of a switch (ast.CaseClause) or of a select (ast.CommClause):
\* its Body is a statement list, not a block.
CaseClause(list) == [kind |-> "CaseClause", Body |-> list]

CommClause(list) == [kind |-> "CommClause", Body |-> list]

RECURSIVE StmtsUpTo(_)
\* The statements made of at most n statements: an expression statement, a
\* loop, a switch or select of one clause, an if with no else, with an else
\* block or with an else-if.
StmtsUpTo(n) ==
    IF n = 0 THEN {}
    ELSE LET ListsOf(m) == {<< >>} \cup { <<s>> : s \in StmtsUpTo(m) }
             BlocksOf(m) == { Block(l) : l \in ListsOf(m) }
             ElseOf(m) ==
                {NoElse} \cup BlocksOf(m)
                    \cup { s \in StmtsUpTo(m) : s.kind = "IfStmt" }
         IN { [kind |-> "ExprStmt"] }
            \cup { [kind |-> k, Body |-> b] :
                     k \in {"ForStmt", "RangeStmt"}, b \in BlocksOf(n - 1) }
            \cup { [kind |-> "SwitchStmt", Body |-> Block(<< CaseClause(l) >>)] :
                     l \in ListsOf(n - 1) }
            \cup { [kind |-> "SelectStmt", Body |-> Block(<< CommClause(l) >>)] :
                     l \in ListsOf(n - 1) }
            \cup UNION { { [kind |-> "IfStmt", Body |-> b, Else |-> e] :
                             b \in BlocksOf(i), e \in ElseOf(n - 1 - i) } :
                         i \in 0..(n - 1) }

\* The bodies of the declarations checked: absent, empty, or one statement.
FuncBodies == {NilBlock, Block(<< >>)} \cup { Block(<<s>>) : s \in StmtsUpTo(MaxStmts) }

\* func Over() with the body given, declared on lines 10-16 of /proj/c.go.
FuncDeclOf(body) ==
    [kind |-> "FuncDecl", name |-> "Over", line |-> 10, endLine |-> 16,
     params |-> Fields(<< >>), results |-> NilFields, body |-> body]

InitFunction ==
    /\ config \in { [Config({}, "info") EXCEPT
                        !.Structure.Rules.MaxNestingLevel.Limit = l] :
                    l \in NestingLimits }
    /\ arg \in { FuncDeclOf(b) : b \in FuncBodies }
    /\ world = [root |-> "/proj", dirs |-> {}, files |-> <<FileC>>, walkFails |-> FALSE]
    /\ pc = "function"
    /\ report = NewReport("/proj")
    /\ ret = NoReport
    /\ retIsReceiver = FALSE
    /\ lastOp = "new"
    /\ finalized = 0
    /\ moved = FALSE
    /\ goFiles = <<FileC.path>>
    /\ idx = 1
    /\ fileMap = EmptyMap
    /\ probes = << >>
    /\ exitCode = -1

\* checkFunction on the declaration arg of the file goFiles[idx]; ret is the
\* depth its call of checkNestingLevel returns (line 671).
CheckFunctionStep ==
    /\ pc = "function"
    /\ ret' = checkNestingLevel(arg.body, 0)
    /\ report' = AddAll(report, checkFunction(config, arg, FileAt(world, goFiles[idx])), 1)
    /\ lastOp' = "checkFunction"
    /\ pc' = "function_done"
    /\ UNCHANGED <<retIsReceiver, arg, finalized, moved>>
    /\ UNCHANGED <<config, world, goFiles, idx, fileMap, probes, exitCode>>

NextFunction == CheckFunctionStep

SpecFunction == InitFunction /\ [][NextFunction]_vars

(* ----------------------------- Report.ToText --------------------------- *)

\* The largest number of findings in a formatted report.
MaxFindings == 3

\* strings.TrimSpace, by table.
TrimTable == {<<"  key := 1  ", "key := 1">>, <<"", "">>}

TrimSpace(str) == (CHOOSE p \in TrimTable : p[1] = str)[2]

\* The findings of the formatted reports: findings of the rule file_name
\* carry a suggestion and no code line, those of no_secrets a code line and
\* no suggestion.
TextViolations ==
    { [File |-> f, Line |-> 1, Rule |-> r, Category |-> CategoryOf(r),
       Severity |-> s, Message |-> <<"msg">>,
       Code |-> IF r = "no_secrets" THEN "  key := 1  " ELSE "",
       Suggestion |-> IF r = "file_name" THEN "rename" ELSE ""] :
        f \in {"/proj/a.go", "/proj/b.go"}, r \in {"file_name", "no_secrets"},
        s \in {SeverityError, SeverityWarning} }

RECURSIVE KeyOrders(_)
\* The orders in which a range loop may visit the keys S of a map.
KeyOrders(S) ==
    IF S = {} THEN { << >> }
    ELSE UNION { { <<k>> \o t : t \in KeyOrders(S \ {k}) } : k \in S }

RECURSIVE ToTextLoop(_, _, _)
\* The loop of ToText over vs[i..] (lines 154-190). A line of the text is
\* written as the name of its fixed part followed by the values formatted
\* into it; << >> is an empty line.
ToTextLoop(vs, i, currentFile) ==
    IF i > Len(vs) THEN << >>
    ELSE LET v == vs[i]
             header == IF v.File # currentFile
                       THEN << <<"File", v.File>>, <<"----">> >> ELSE << >>
             finding == << <<"Finding", v.Severity, v.Rule, v.Line, v.Message>> >>
             code == IF v.Code # "" THEN << <<"Code", TrimSpace(v.Code)>> >> ELSE << >>
             suggestion == IF v.Suggestion # ""
                           THEN << <<"Suggestion", v.Suggestion>> >> ELSE << >>
             gap == IF i - 1 < Len(vs) - 1 THEN << << >> >> ELSE << >>
         IN header \o finding \o code \o suggestion \o gap
            \o ToTextLoop(vs, i + 1, v.File)

\* ToText, the range loop over Summary.ByCategory visiting the keys in order.
ToText(r, order) ==
    LET errorCount == MapGet(r.Summary.BySeverity, "error")
        warningCount == MapGet(r.Summary.BySeverity, "warning")
        infoCount == MapGet(r.Summary.BySeverity, "info")
        top == << <<"box top">>, <<"Go Standards Checker - Compliance Report">>,
                  <<"box bottom">>, << >>,
                  <<"Project:", r.ProjectPath>>,
                  <<"Files Checked:", r.TotalFiles>>, << >>,
                  <<"====">>, <<"SUMMARY">>, <<"====">>,
                  <<"Errors:", errorCount>>, <<"Warnings:", warningCount>>,
                  <<"Info:", infoCount>>,
                  <<"Total:", r.Summary.TotalViolations>>, << >> >>
        categories ==
            IF Len(order) > 0
            THEN << <<"By Category:">> >>
                 \o [i \in 1..Len(order) |->
                        <<"Category", order[i], r.Summary.ByCategory[order[i]]>>]
                 \o << << >> >>
            ELSE << >>
        verdict == IF errorCount > 0 THEN <<"Check FAILED">>
                   ELSE IF warningCount > 0 THEN <<"Check PASSED with warnings">>
                   ELSE <<"Check PASSED">>
    IN IF Len(r.Violations) = 0
       THEN top \o categories
            \o << <<"====">>, <<"Congratulations! No violations found.">>, <<"====">> >>
       ELSE top \o categories
            \o << <<"====">>, <<"VIOLATIONS">>, <<"====">>, << >> >>
            \o ToTextLoop(r.Violations, 1, "")
            \o << << >>, <<"====">>, verdict, <<"====">> >>

InitText ==
    /\ report \in { NewReport(p) : p \in ProjectPaths }
    /\ ret = NoReport
    /\ retIsReceiver = FALSE
    /\ arg = ""
    /\ lastOp = "new"
    /\ finalized = 0
    /\ moved = FALSE
    /\ config = Config({}, "info")
    /\ world = [root |-> "/proj", dirs |-> {}, files |-> << >>, walkFails |-> FALSE]
    /\ pc = "text"
    /\ goFiles = << >>
    /\ idx = 0
    /\ fileMap = EmptyMap
    /\ probes = << >>
    /\ exitCode = -1

TextAddViolation ==
    /\ pc = "text"
    /\ finalized = 0
    /\ Len(report.Violations) < MaxFindings
    /\ \E v \in TextViolations : report' = AddViolation(report, v)
    /\ lastOp' = "add"
    /\ UNCHANGED <<ret, retIsReceiver, arg, finalized, moved>>
    /\ UNCHANGED checkerVars

TextFinalize ==
    /\ pc = "text"
    /\ finalized = 0
    /\ \E r \in Finalize(report) :
          /\ report' = r
          /\ moved' = (r.Violations # report.Violations)
    /\ finalized' = 1
    /\ lastOp' = "finalize"
    /\ UNCHANGED <<ret, retIsReceiver, arg>>
    /\ UNCHANGED checkerVars

\* ToText on the finalized report; ret is the text it returns.
ToTextStep ==
    /\ pc = "text"
    /\ finalized = 1
    /\ \E order \in KeyOrders(DOMAIN report.Summary.ByCategory) :
          ret' = ToText(report, order)
    /\ lastOp' = "totext"
    /\ pc' = "printed"
    /\ UNCHANGED <<report, retIsReceiver, arg, finalized, moved>>
    /\ UNCHANGED <<config, world, goFiles, idx, fileMap, probes, exitCode>>

NextText ==
    \/ TextAddViolation
    \/ TextFinalize
    \/ ToTextStep

SpecText == InitText /\ [][NextText]_vars

(* ------------------------- auxiliary operators ------------------------- *)

Count(s, v) == Cardinality({ i \in 1..Len(s) : s[i] = v })

CountWhere(s, P(_)) == Cardinality({ i \in 1..Len(s) : P(s[i]) })

RECURSIVE SumOver(_, _)
SumOver(m, keys) ==
    IF keys = {} THEN 0
    ELSE LET k == CHOOSE x \in keys : TRUE
         IN m[k] + SumOver(m, keys \ {k})

MapSum(m) == SumOver(m, DOMAIN m)

Reorderings(s) ==
    { [i \in 1..Len(s) |-> s[p[i]]] : p \in Permutations(1..Len(s)) }

RECURSIVE InsertStable(_, _)
\* v inserted into sorted sequence s after every element it does not precede.
InsertStable(s, v) ==
    IF s = << >> THEN <<v>>
    ELSE IF Less(v, s[Len(s)])
         THEN Append(InsertStable(SubSeq(s, 1, Len(s) - 1), v), s[Len(s)])
         ELSE Append(s, v)

RECURSIVE StableSort(_)
StableSort(s) ==
    IF s = << >> THEN << >>
    ELSE InsertStable(StableSort(SubSeq(s, 1, Len(s) - 1)), s[Len(s)])

PathLessOrEqual(a, b) == PathRank(a) <= PathRank(b)

(* ------------------------------- claims -------------------------------- *)

\* C1: Finalize is idempotent: a Finalize that directly follows a Finalize
\* leaves the report (Violations order and Summary) as the first one left it.
C1_FinalizeIdempotent ==
    [][(lastOp = "finalize" /\ lastOp' = "finalize") => report' = report]_vars

\* C2: in every state that directly follows a Finalize, TotalViolations is
\* the number of Violations and the BySeverity counts sum to TotalViolations.
C2_SummaryTotals ==
    lastOp = "finalize" =>
        /\ report.Summary.TotalViolations = Len(report.Violations)
        /\ MapSum(report.Summary.BySeverity) = report.Summary.TotalViolations

\* C3: after Finalize, for all positions i < j: level(i) >= level(j); on equal
\* levels file(i) <= file(j); on equal level and file line(i) <= line(j).
C3_SortInvariant ==
    lastOp = "finalize" =>
        \A i, j \in 1..Len(report.Violations) :
            i < j =>
                LET a == report.Violations[i]
                    b == report.Violations[j]
                IN /\ Level(a.Severity) >= Level(b.Severity)
                   /\ Level(a.Severity) = Level(b.Severity) =>
                          PathLessOrEqual(a.File, b.File)
                   /\ (Level(a.Severity) = Level(b.Severity) /\ a.File = b.File) =>
                          a.Line <= b.Line

C3_Witness ==
    /\ lastOp = "finalize"
    /\ moved
    /\ Len(report.Violations) = 2
    /\ Level(report.Violations[1].Severity) > Level(report.Violations[2].Severity)

\* C4: the finalized report does not depend on insertion order: the first
\* Finalize of a report gives the same Violations sequence and Summary as a
\* Finalize of the same findings added in any other order.
C4_OrderIndependent ==
    [][(lastOp' = "finalize" /\ finalized = 0) =>
          \A p \in Reorderings(report.Violations) :
              \A r \in Finalize([report EXCEPT !.Violations = p]) :
                  r = report']_vars

\* C5: the sort of Finalize is stable: findings that tie on severity level,
\* file and line keep the relative order in which they were added.
C5_SortStable ==
    [][lastOp' = "finalize" =>
          report'.Violations = StableSort(report.Violations)]_vars

\* C6: Filter(minSeverity) returns exactly the source findings whose level is
\* >= level(minSeverity), each as many times as the source holds it.
C6_FilterExact ==
    lastOp = "filter" =>
        \A v \in Violations :
            Count(ret.Violations, v) =
                IF Level(v.Severity) >= Level(arg)
                THEN Count(report.Violations, v)
                ELSE 0

C6_Witness ==
    /\ lastOp = "filter"
    /\ arg = "warning"
    /\ Len(report.Violations) = 2
    /\ Len(ret.Violations) = 1
    /\ report.Violations[1].Severity = SeverityInfo

\* C7: Filter leaves its source untouched (Violations, Summary, TotalFiles,
\* ProjectPath), returns a report other than the source, and that report has
\* the source's TotalFiles and ProjectPath.
C7_FilterFrame ==
    [][lastOp' = "filter" =>
          /\ report' = report
          /\ ~retIsReceiver'
          /\ ret'.TotalFiles = report.TotalFiles
          /\ ret'.ProjectPath = report.ProjectPath]_vars

C7_Witness ==
    /\ lastOp = "filter"
    /\ finalized >= 1
    /\ report.TotalFiles = 2
    /\ ret.TotalFiles = 2
    /\ Len(ret.Violations) < Len(report.Violations)

\* C8: the Summary of a report returned by Filter holds the counts recomputed
\* from that report's own Violations, however often the source was finalized.
C8_FilterSummary ==
    lastOp = "filter" =>
        /\ ret.Summary.TotalViolations = Len(ret.Violations)
        /\ \A c \in { CategoryOf(v.Rule) : v \in Violations } \cup DOMAIN ret.Summary.ByCategory :
              MapGet(ret.Summary.ByCategory, c) =
                  CountWhere(ret.Violations, LAMBDA v : v.Category = c)
        /\ \A sv \in Severities \cup DOMAIN ret.Summary.BySeverity :
              MapGet(ret.Summary.BySeverity, sv) =
                  CountWhere(ret.Violations, LAMBDA v : v.Severity = sv)

C8_Witness ==
    /\ lastOp = "filter"
    /\ finalized = 2
    /\ Len(ret.Violations) = 1
    /\ Len(report.Violations) = 2
    /\ MapSum(report.Summary.BySeverity) > Len(report.Violations)

\* C9: ExitCode of the report returned by Filter is 1 if that report holds a
\* finding of severity error and 0 otherwise.
C9_ExitCode ==
    lastOp = "filter" =>
        ExitCode(ret) =
            IF \E i \in 1..Len(ret.Violations) :
                   ret.Violations[i].Severity = SeverityError
            THEN 1 ELSE 0

C9_Witness ==
    /\ lastOp = "filter"
    /\ ExitCode(ret) = 1
    /\ Len(ret.Violations) < Len(report.Violations)

\* Whether the configuration enables the rule that reports under this name:
\* its category's flag and its own flag, or the flag of a custom rule.
RuleEnabled(cfg, rule) ==
    CASE rule = "file_name" -> cfg.Naming.Enabled /\ cfg.Naming.Rules.FileName.Enabled
      [] rule = "package_name" ->
            cfg.Naming.Enabled /\ cfg.Naming.Rules.PackageName.Enabled
      [] rule = "exported_name" ->
            cfg.Naming.Enabled /\ cfg.Naming.Rules.ExportedNames.Enabled
      [] rule = "interface_name" ->
            cfg.Naming.Enabled /\ cfg.Naming.Rules.InterfaceName.Enabled
      [] rule = "error_var" -> cfg.Naming.Enabled /\ cfg.Naming.Rules.ErrorVar.Enabled
      [] rule = "max_function_lines" ->
            cfg.Structure.Enabled /\ cfg.Structure.Rules.MaxFunctionLines.Enabled
      [] rule = "max_nesting_level" ->
            cfg.Structure.Enabled /\ cfg.Structure.Rules.MaxNestingLevel.Enabled
      [] rule = "max_parameters" ->
            cfg.Structure.Enabled /\ cfg.Structure.Rules.MaxParameters.Enabled
      [] rule = "max_return_values" ->
            cfg.Structure.Enabled /\ cfg.Structure.Rules.MaxReturnValues.Enabled
      [] rule = "no_ignored_errors" ->
            cfg.ErrorHandling.Enabled /\ cfg.ErrorHandling.Rules.NoIgnoredErrors.Enabled
      [] rule = "no_panic" ->
            cfg.ErrorHandling.Enabled /\ cfg.ErrorHandling.Rules.NoPanic.Enabled
      [] rule = "no_fmt_println" ->
            cfg.Logging.Enabled /\ cfg.Logging.Rules.NoFmtPrintln.Enabled
      [] rule = "required_dirs" ->
            cfg.Directory.Enabled /\ cfg.Directory.Rules.RequiredDirs.Enabled
      [] rule = "recommended_dirs" ->
            cfg.Directory.Enabled /\ cfg.Directory.Rules.RecommendedDirs.Enabled
      [] rule = "json_tag" ->
            cfg.StructTags.Enabled /\ cfg.StructTags.Rules.JSONTag.Enabled
      [] rule = "validation_tag" ->
            cfg.StructTags.Enabled /\ cfg.StructTags.Rules.ValidationTag.Enabled
      [] OTHER ->
            \E i \in 1..Len(cfg.CustomRules) :
                cfg.CustomRules[i].Name = rule /\ cfg.CustomRules[i].Enabled

\* The directories whose presence an enabled directory rule asks about.
DirsAskedFor(cfg) ==
    (IF RuleEnabled(cfg, "required_dirs")
     THEN { cfg.Directory.Rules.RequiredDirs.Dirs[i] :
                i \in 1..Len(cfg.Directory.Rules.RequiredDirs.Dirs) }
     ELSE {})
    \cup
    (IF RuleEnabled(cfg, "recommended_dirs")
     THEN { cfg.Directory.Rules.RecommendedDirs.Dirs[i] :
                i \in 1..Len(cfg.Directory.Rules.RecommendedDirs.Dirs) }
     ELSE {})

\* C10: a disabled rule is skipped entirely: at every point of Check and after
\* it, the report holds no finding of a rule whose flag or whose category's
\* flag is false, and every directory probed so far belongs to an enabled
\* directory rule (so none is probed when the directory rules are disabled).
C10_DisabledRulesSkipped ==
    pc \notin {"start"} =>
        /\ \A i \in 1..Len(report.Violations) :
              RuleEnabled(config, report.Violations[i].Rule)
        /\ \A k \in 1..Len(probes) :
              \E d \in DirsAskedFor(config) : probes[k] = JoinPath(world.root, d)

C10_Witness ==
    /\ pc = "returned"
    /\ config.Directory.Enabled
    /\ ~config.Directory.Rules.RequiredDirs.Enabled
    /\ "internal" \notin world.dirs
    /\ probes = <<"/proj/docs">>
    /\ Len(report.Violations) > 10

\* The number of findings of a rule in a report.
CountRule(r, rule) ==
    Cardinality({ i \in 1..Len(r.Violations) : r.Violations[i].Rule = rule })

\* The name under which the rule of a pattern slot reports.
SlotRule(slot) ==
    CASE slot = "naming.file_name" -> "file_name"
      [] slot = "naming.package_name" -> "package_name"
      [] slot = "naming.error_var" -> "error_var"
      [] slot = "error_handling.no_ignored_errors" -> "no_ignored_errors"
      [] slot = "custom.no_secrets" -> "no_secrets"
      [] slot = "custom.no_todo" -> "no_todo"

\* The regexes configured in the rule of a pattern slot.
SlotPatterns(cfg, slot) ==
    CASE slot = "naming.file_name" -> {cfg.Naming.Rules.FileName.Pattern}
      [] slot = "naming.package_name" -> {cfg.Naming.Rules.PackageName.Pattern}
      [] slot = "naming.error_var" -> {cfg.Naming.Rules.ErrorVar.Pattern}
      [] slot = "error_handling.no_ignored_errors" ->
            { cfg.ErrorHandling.Rules.NoIgnoredErrors.AllowedPatterns[i] :
                i \in 1..Len(cfg.ErrorHandling.Rules.NoIgnoredErrors.AllowedPatterns) }
      [] slot = "custom.no_secrets" -> {cfg.CustomRules[1].Pattern}
      [] slot = "custom.no_todo" -> {cfg.CustomRules[2].Pattern}

\* C11: a malformed regex makes its rule inert without aborting the run: Check
\* fails only when the walk fails, and the report it returns holds no finding
\* of a rule one of whose configured patterns does not compile.
C11_MalformedRegexInert ==
    /\ pc = "check_failed" => world.walkFails
    /\ pc = "returned" =>
          \A slot \in PatternSlots :
              (\E p \in SlotPatterns(config, slot) : ~RegexCompiles(p)) =>
                  CountRule(report, SlotRule(slot)) = 0

\* The files of the project that checkFile parses.
ParsedFiles(w) ==
    { w.files[k] : k \in { i \in 1..Len(w.files) :
          w.files[i].isGo /\ ~w.files[i].excluded /\ w.files[i].readable
          /\ w.files[i].parses } }

\* The function declarations of a file.
FuncDecls(f) ==
    { f.nodes[k] : k \in { i \in 1..Len(f.nodes) : f.nodes[i].kind = "FuncDecl" } }

\* The positions in a report of the findings of a rule at a file and line.
FindingsAt(r, rule, file, line) ==
    { i \in 1..Len(r.Violations) :
        /\ r.Violations[i].Rule = rule
        /\ r.Violations[i].File = file
        /\ r.Violations[i].Line = line }

StructureRuleOn(cfg, rule) == cfg.Structure.Enabled /\ rule.Enabled

\* C12: with max_function_lines enabled, a function whose span (end line minus
\* start line) is at most the limit has no max_function_lines finding, and one
\* whose span exceeds it has exactly one, whose message carries the span and
\* the limit.
C12_FunctionLengthBoundary ==
    (pc = "returned"
     /\ StructureRuleOn(config, config.Structure.Rules.MaxFunctionLines)) =>
        \A f \in ParsedFiles(world) :
            \A fn \in FuncDecls(f) :
                LET span == fn.endLine - fn.line
                    limit == config.Structure.Rules.MaxFunctionLines.Limit
                    found == FindingsAt(report, "max_function_lines", f.path, fn.line)
                IN /\ Cardinality(found) = IF span > limit THEN 1 ELSE 0
                   /\ \A i \in found :
                         /\ report.Violations[i].Message[3] = span
                         /\ report.Violations[i].Message[4] = limit

C12_Witness ==
    /\ pc = "returned"
    /\ StructureRuleOn(config, config.Structure.Rules.MaxFunctionLines)
    /\ FileC \in ParsedFiles(world)
    /\ \E fn \in FuncDecls(FileC) :
          fn.endLine - fn.line = config.Structure.Rules.MaxFunctionLines.Limit
    /\ \E fn \in FuncDecls(FileC) :
          /\ fn.endLine - fn.line = config.Structure.Rules.MaxFunctionLines.Limit + 1
          /\ FindingsAt(report, "max_function_lines", FileC.path, fn.line) # {}

RECURSIVE SumSeq(_)
SumSeq(s) == IF s = << >> THEN 0 ELSE s[1] + SumSeq(Tail(s))

\* The number of parameters or results a field list declares.
Declared(fields) == IF fields.isNil THEN 0 ELSE SumSeq(fields.List)

\* C13: with the rule enabled, a function has a max_parameters finding exactly
\* when the number of parameters it declares exceeds the limit, and a
\* max_return_values finding exactly when the number of its results does,
\* every parameter and result counted by itself also in a grouped declaration.
C13_CountsEveryParameter ==
    pc = "returned" =>
        \A f \in ParsedFiles(world) :
            \A fn \in FuncDecls(f) :
                /\ StructureRuleOn(config, config.Structure.Rules.MaxParameters) =>
                      Cardinality(FindingsAt(report, "max_parameters", f.path, fn.line))
                          = IF Declared(fn.params)
                                   > config.Structure.Rules.MaxParameters.Limit
                            THEN 1 ELSE 0
                /\ StructureRuleOn(config, config.Structure.Rules.MaxReturnValues) =>
                      Cardinality(FindingsAt(report, "max_return_values", f.path, fn.line))
                          = IF Declared(fn.results)
                                   > config.Structure.Rules.MaxReturnValues.Limit
                            THEN 1 ELSE 0

\* The assignment statements of a file.
AssignStmts(f) ==
    { f.nodes[k] : k \in { i \in 1..Len(f.nodes) : f.nodes[i].kind = "AssignStmt" } }

\* Whether an assignment discards a value: '_' is among its targets.
Discards(as) ==
    \E i \in 1..Len(as.lhs) : as.lhs[i].kind = "Ident" /\ as.lhs[i].name = "_"

\* Whether the right-hand side of an assignment holds a call whose signature
\* no regex of the allow-list matches.
CallsOutsideAllowList(cfg, as) ==
    \E k \in 1..Len(as.rhs) :
        /\ as.rhs[k].kind = "CallExpr"
        /\ \A p \in SlotPatterns(cfg, "error_handling.no_ignored_errors") :
              ~RegexMatches(p, getCallExprString(as.rhs[k]))

\* C14: with the rule enabled, an assignment has a no_ignored_errors finding
\* exactly when '_' is among its targets and its right-hand side holds a call
\* whose signature matches no allow-list regex, also when one call supplies
\* several targets as in 'result, _ := someFunction()'.
C14_DiscardedCallReported ==
    (pc = "returned" /\ config.ErrorHandling.Enabled
     /\ config.ErrorHandling.Rules.NoIgnoredErrors.Enabled) =>
        \A f \in ParsedFiles(world) :
            \A as \in AssignStmts(f) :
                (FindingsAt(report, "no_ignored_errors", f.path, as.line) # {})
                    <=> (Discards(as) /\ CallsOutsideAllowList(config, as))

\* The files Check collected, in order.
Collected == { FileAt(world, goFiles[i]) : i \in 1..Len(goFiles) }

\* Whether one of a custom rule's exclude globs matches the file's base name.
ExcludedFrom(rule, f) ==
    \E k \in 1..Len(rule.ExcludeFiles) : GlobMatches(rule.ExcludeFiles[k], f.base)

\* C15: for every enabled custom rule and every collected file, each line of
\* the file has exactly one finding of that rule when the file is not
\* excluded and the rule's regex matches the line, and none otherwise; the
\* finding carries the line's 1-based number, the rule's name and the category
\* custom, and the rule has no other finding in that file.
C15_CustomRulePerLine ==
    pc = "returned" =>
        \A k \in 1..Len(config.CustomRules) :
            LET rule == config.CustomRules[k]
            IN rule.Enabled =>
                 \A f \in Collected :
                    /\ \A n \in 1..Len(f.lines) :
                          Cardinality(FindingsAt(report, rule.Name, f.path, n))
                              = IF ~ExcludedFrom(rule, f)
                                   /\ RegexMatches(rule.Pattern, f.lines[n])
                                THEN 1 ELSE 0
                    /\ \A i \in 1..Len(report.Violations) :
                          (report.Violations[i].Rule = rule.Name
                           /\ report.Violations[i].File = f.path) =>
                              /\ report.Violations[i].Category = "custom"
                              /\ report.Violations[i].Line \in 1..Len(f.lines)

C15_Witness ==
    /\ pc = "returned"
    /\ config.CustomRules[1].Enabled
    /\ config.CustomRules[2].Enabled
    /\ FileC \in Collected
    /\ FileB \in Collected
    /\ { report.Violations[i].Line :
           i \in { j \in 1..Len(report.Violations) :
                     /\ report.Violations[j].Rule = "no_secrets"
                     /\ report.Violations[j].File = "/proj/c.go" } } = {11, 13}
    /\ \E n \in 1..Len(FileB.lines) :
          RegexMatches(config.CustomRules[2].Pattern, FileB.lines[n])
    /\ \A n \in 1..Len(FileB.lines) : FindingsAt(report, "no_todo", "/proj/B.go", n) = {}

\* The number of separate matches of a regex in a line (what
\* Regexp.FindAllStringIndex would list).
MatchCount(pattern, line) ==
    IF ~RegexMatches(pattern, line) THEN 0
    ELSE IF pattern = "TODO" /\ line = "// TODO one, TODO two" THEN 2
    ELSE 1

\* C16: findings are not deduplicated: for an enabled custom rule and a
\* collected file it does not exclude, a line has as many findings of the
\* rule as the rule's regex has separate matches in it.
C16_OneFindingPerMatch ==
    pc = "returned" =>
        \A k \in 1..Len(config.CustomRules) :
            LET rule == config.CustomRules[k]
            IN rule.Enabled =>
                 \A f \in { g \in Collected : ~ExcludedFrom(rule, g) } :
                    \A n \in 1..Len(f.lines) :
                        Cardinality(FindingsAt(report, rule.Name, f.path, n))
                            = MatchCount(rule.Pattern, f.lines[n])

\* The positions in a report of the findings of a directory rule about dir.
DirFindings(r, rule, dir) ==
    { i \in 1..Len(r.Violations) :
        r.Violations[i].Rule = rule /\ r.Violations[i].Message[2] = dir }

\* C17: with required_dirs enabled, from the directory check on and whatever
\* the number of files, the report holds exactly one required_dirs finding for
\* each configured required directory absent under the root, none for a
\* present one, and no other required_dirs finding.
C17_RequiredDirsOncePerScan ==
    (pc \notin {"start", "directory"} /\ RuleEnabled(config, "required_dirs")) =>
        LET dirs == config.Directory.Rules.RequiredDirs.Dirs
        IN /\ \A k \in 1..Len(dirs) :
                 Cardinality(DirFindings(report, "required_dirs", dirs[k]))
                     = IF dirs[k] \in world.dirs THEN 0 ELSE 1
           /\ CountRule(report, "required_dirs")
                 = Cardinality({ k \in 1..Len(dirs) : dirs[k] \notin world.dirs })

C17_Witness ==
    /\ pc = "returned"
    /\ RuleEnabled(config, "required_dirs")
    /\ world.dirs = {}
    /\ Len(goFiles) > 2
    /\ CountRule(report, "required_dirs") = 2

\* The names a file declares in var declarations with the explicit type error,
\* each with its line and whether the declaration is inside a function body.
ErrorVars(f) ==
    UNION { UNION { { [name |-> f.nodes[i].specs[j].names[k].name,
                       line |-> f.nodes[i].specs[j].names[k].line,
                       inFunc |-> f.nodes[i].inFunc] :
                        k \in 1..Len(f.nodes[i].specs[j].names) } :
                    j \in { m \in 1..Len(f.nodes[i].specs) :
                              f.nodes[i].specs[m].type = "error" } } :
            i \in { n \in 1..Len(f.nodes) :
                      f.nodes[n].kind = "GenDecl" /\ f.nodes[n].tok = "var" } }

\* C18: with error_var enabled and its pattern compiling, a value declared
\* with the explicit type error has exactly one error_var finding when it is
\* package-level, exported and its name does not match the pattern, and none
\* otherwise (name matching, unexported, or declared inside a function body).
C18_SentinelNaming ==
    (pc = "returned" /\ RuleEnabled(config, "error_var")
     /\ RegexCompiles(config.Naming.Rules.ErrorVar.Pattern)) =>
        \A f \in ParsedFiles(world) :
            \A v \in ErrorVars(f) :
                Cardinality(FindingsAt(report, "error_var", f.path, v.line))
                    = IF ~v.inFunc /\ IsExported(v.name)
                         /\ ~RegexMatches(config.Naming.Rules.ErrorVar.Pattern, v.name)
                      THEN 1 ELSE 0

\* The project without the files the parser rejects.
WithoutUnparsable(w) ==
    [w EXCEPT !.files = SelectSeq(w.files, LAMBDA f : ~f.isGo \/ f.parses)]

RECURSIVE ScanFiles(_, _, _, _)
\* What checkFile adds for paths[i..] of project w, in order.
ScanFiles(cfg, w, paths, i) ==
    IF i > Len(paths) THEN << >>
    ELSE checkFile(cfg, FileAt(w, paths[i])).violations \o ScanFiles(cfg, w, paths, i + 1)

RECURSIVE ScanCustom(_, _, _, _)
\* What checkCustomRules adds for paths[i..] of project w, every file's lines
\* having been read.
ScanCustom(cfg, w, paths, i) ==
    IF i > Len(paths) THEN << >>
    ELSE LET f == FileAt(w, paths[i])
         IN checkCustomRules(cfg, (f.path :> f.lines), f)
            \o ScanCustom(cfg, w, paths, i + 1)

\* The findings of a whole scan of project w whose walk succeeds.
ScanFindings(cfg, w) ==
    (IF cfg.Directory.Enabled THEN checkDirectory(cfg, w.root, w).violations ELSE << >>)
    \o ScanFiles(cfg, w, collectGoFiles(w), 1)
    \o ScanCustom(cfg, w, collectGoFiles(w), 1)

\* C19: a parse error is not fatal: Check fails only when the walk fails, and
\* in the report it returns every collected file that parses has the
\* findings, each as often, that a scan of the project without the
\* unparsable files gives it.
C19_ParseErrorNotFatal ==
    /\ (pc = "check_failed" /\ ~world.walkFails) => FALSE
    /\ pc = "returned" =>
          LET alone == ScanFindings(config, WithoutUnparsable(world))
          IN \A f \in { g \in Collected : g.parses } :
                \A v \in { report.Violations[i] : i \in 1..Len(report.Violations) }
                         \cup { alone[i] : i \in 1..Len(alone) } :
                    v.File = f.path => Count(report.Violations, v) = Count(alone, v)

C19_Witness ==
    /\ pc = "returned"
    /\ FileBad \in Collected
    /\ FileC \in Collected
    /\ FindingsAt(report, "max_function_lines", "/proj/c.go", 10) # {}
    /\ FindingsAt(report, "no_secrets", "/proj/c.go", 13) # {}
    /\ report.TotalFiles = Len(goFiles)

\* The default configuration paths that exist in the working directory.
DefaultsFound(w) ==
    { i \in 1..Len(DefaultPaths) : DefaultPaths[i] \in DOMAIN w.configFiles }

\* Whether the configuration document the run would use is missing or cannot
\* be parsed: the -config path when one is given, otherwise the first default
\* path that exists.
ConfigDocumentBroken(w) ==
    IF w.configPath # ""
    THEN \/ w.configPath \notin DOMAIN w.configFiles
         \/ w.configFiles[w.configPath] = "bad"
    ELSE /\ DefaultsFound(w) # {}
         /\ LET first == CHOOSE i \in DefaultsFound(w) :
                             \A j \in DefaultsFound(w) : i <= j
            IN w.configFiles[DefaultPaths[first]] = "bad"

\* C20: a configuration error is fatal: when the document the run would use
\* is missing or unparsable, the run never scans and ends with a non-zero
\* exit status, for an explicit path and for a discovered default file alike.
C20_ConfigErrorFatal ==
    ConfigDocumentBroken(world) =>
        \/ pc = "config"
        \/ pc = "exited" /\ exitCode # 0 /\ lastOp = "none"

MaxOf(S) == CHOOSE m \in S : \A x \in S : x <= m

RECURSIVE StmtDepth(_, _)
RECURSIVE ListDepth(_, _)

\* The number of nestable constructs around the deepest point of stmt, a
\* statement at depth level: a loop, a switch, a select and an if put their
\* bodies one deeper, the clauses of a switch or select being its body; an
\* else block and the branches of an else-if are as deep as the if's body.
StmtDepth(stmt, level) ==
    CASE stmt.kind \in {"ForStmt", "RangeStmt"} -> ListDepth(stmt.Body.List, level + 1)
      [] stmt.kind \in {"SwitchStmt", "SelectStmt"} ->
            MaxOf({level + 1} \cup { ListDepth(stmt.Body.List[i].Body, level + 1) :
                                       i \in 1..Len(stmt.Body.List) })
      [] stmt.kind = "IfStmt" ->
            MaxOf({ ListDepth(stmt.Body.List, level + 1) }
                  \cup (CASE stmt.Else.kind = "BlockStmt" ->
                                { ListDepth(stmt.Else.List, level + 1) }
                          [] stmt.Else.kind = "IfStmt" -> { StmtDepth(stmt.Else, level) }
                          [] OTHER -> {}))
      [] OTHER -> level

ListDepth(list, level) ==
    MaxOf({level} \cup { StmtDepth(list[i], level) : i \in 1..Len(list) })

\* The nesting depth of a function body; 0 for an absent body.
NestingDepth(body) == IF body.isNil THEN 0 ELSE ListDepth(body.List, 0)

\* C21: the depth checkFunction computes for a declaration is the greatest
\* number of nestable constructs (if, for, range, switch, select) around any
\* point of its body, constructs inside a case clause or inside an else-if
\* branch included.
C21_NestingDepthIsMaximum ==
    pc = "function_done" => ret = NestingDepth(arg.body)

RECURSIVE SwapsInStmt(_)
RECURSIVE SwapsInList(_)

\* The statements obtained from stmt by exchanging the body and the else
\* block of one if with an else block, anywhere within stmt.
SwapsInStmt(stmt) ==
    CASE stmt.kind \in {"ForStmt", "RangeStmt"} ->
            { [stmt EXCEPT !.Body.List = l] : l \in SwapsInList(stmt.Body.List) }
      [] stmt.kind \in {"SwitchStmt", "SelectStmt"} ->
            UNION { { [stmt EXCEPT !.Body.List[i].Body = l] :
                        l \in SwapsInList(stmt.Body.List[i].Body) } :
                    i \in 1..Len(stmt.Body.List) }
      [] stmt.kind = "IfStmt" ->
            { [stmt EXCEPT !.Body.List = l] : l \in SwapsInList(stmt.Body.List) }
            \cup (CASE stmt.Else.kind = "BlockStmt" ->
                          { [stmt EXCEPT !.Body = stmt.Else, !.Else = stmt.Body] }
                          \cup { [stmt EXCEPT !.Else.List = l] :
                                    l \in SwapsInList(stmt.Else.List) }
                    [] stmt.Else.kind = "IfStmt" ->
                          { [stmt EXCEPT !.Else = e] : e \in SwapsInStmt(stmt.Else) }
                    [] OTHER -> {})
      [] OTHER -> {}

SwapsInList(list) ==
    UNION { { [list EXCEPT ![i] = s] : s \in SwapsInStmt(list[i]) } :
            i \in 1..Len(list) }

\* The bodies obtained from body by one such exchange.
Swaps(body) ==
    IF body.isNil THEN {} ELSE { Block(l) : l \in SwapsInList(body.List) }

\* No statement of list is an if, a loop, a switch or a select.
NoNestable(list) ==
    \A i \in 1..Len(list) :
        list[i].kind \notin {"IfStmt", "ForStmt", "RangeStmt", "SwitchStmt", "SelectStmt"}

\* body is an if, with no else, that holds a loop with nothing nestable in it.
IfHoldingLoop(body) ==
    /\ ~body.isNil
    /\ Len(body.List) = 1
    /\ body.List[1].kind = "IfStmt"
    /\ body.List[1].Else = NoElse
    /\ Len(body.List[1].Body.List) = 1
    /\ body.List[1].Body.List[1].kind \in {"ForStmt", "RangeStmt"}
    /\ NoNestable(body.List[1].Body.List[1].Body.List)

\* The depth reported for the declaration: 0 when there is no
\* max_nesting_level finding, else the depth in the finding's message.
ReportedDepth(r) ==
    LET S == { i \in 1..Len(r.Violations) : r.Violations[i].Rule = "max_nesting_level" }
    IN IF S = {} THEN 0 ELSE r.Violations[CHOOSE i \in S : TRUE].Message[3]

\* C22: a body with no nestable construct, or no body, has depth 0; an if
\* holding a loop has depth 2; an else block is as deep as the body of its
\* if, so that exchanging the contents of the two never changes the depth
\* computed for the function, and an if whose contents all sit in its else
\* block is as deep as the if holding them in its body. A depth above the
\* limit is the depth the finding reports.
C22_NestingBaseCases ==
    pc = "function_done" =>
        LET body == arg.body
            limit == config.Structure.Rules.MaxNestingLevel.Limit
        IN /\ (body.isNil \/ NoNestable(body.List)) => ret = 0
           /\ IfHoldingLoop(body) => ret = 2
           /\ \A b \in Swaps(body) : checkNestingLevel(b, 0) = ret
           /\ \A e \in FuncBodies :
                (~e.isNil /\ body = Block(<< [kind |-> "IfStmt", Body |-> Block(<< >>),
                                              Else |-> e] >>))
                    => ret = checkNestingLevel(
                                Block(<< [kind |-> "IfStmt", Body |-> e,
                                          Else |-> NoElse] >>), 0)
           /\ CountRule(report, "max_nesting_level") = (IF ret > limit THEN 1 ELSE 0)
           /\ ret > limit => ReportedDepth(report) = ret

\* C22 witness: `if { for { } } else { }` has been measured: depth 2, the
\* exchange moves the loop into the else block.
C22_Witness ==
    /\ pc = "function_done"
    /\ arg.body = Block(<< [kind |-> "IfStmt",
                            Body |-> Block(<< [kind |-> "ForStmt", Body |-> Block(<< >>)] >>),
                            Else |-> Block(<< >>)] >>)
    /\ Swaps(arg.body) # {}
    /\ ret = 2
    /\ ReportedDepth(report) = 2

\* The findings of the directory stage of a scan.
StageDirectory(cfg, w) ==
    IF cfg.Directory.Enabled THEN checkDirectory(cfg, w.root, w).violations ELSE << >>

\* a and b hold the same findings, each as often.
SameFindings(a, b) ==
    /\ Len(a) = Len(b)
    /\ \A i \in 1..Len(a) : Count(a, a[i]) = Count(b, a[i])

\* What the report holds at each point of Check: the findings of the stages
\* run so far, in the order directory check, files, custom rules.
StagesSoFar ==
    LET dir == StageDirectory(config, world)
        all == collectGoFiles(world)
    IN /\ pc = "directory" => report.Violations = << >> /\ goFiles = << >>
       /\ pc = "collect" => report.Violations = dir /\ goFiles = << >>
       /\ pc = "files" =>
            /\ goFiles = all
            /\ report.TotalFiles = Len(all)
            /\ report.Violations =
                  dir \o ScanFiles(config, world, SubSeq(all, 1, idx - 1), 1)
       /\ pc = "custom" =>
            /\ goFiles = all
            /\ report.Violations =
                  dir \o ScanFiles(config, world, all, 1)
                      \o ScanCustom(config, world, SubSeq(all, 1, idx - 1), 1)
       /\ pc \in {"directory", "collect", "files", "custom"} => finalized = 0
       /\ pc = "returned" =>
            /\ finalized = 1
            /\ lastOp = "finalize"
            /\ report.TotalFiles = Len(all)
            /\ SameFindings(report.Violations, ScanFindings(config, world))

\* C23: Check runs the directory check, the collection of the files, the
\* rules on every collected file, the custom rules on every collected file
\* and then Finalize, once; nothing is added to the report after that
\* Finalize, and the returned report's TotalFiles is the number of collected
\* files.
C23_StagesInOrder ==
    /\ [](StagesSoFar /\ finalized <= 1)
    /\ [][finalized = 1 =>
            /\ finalized' = 1
            /\ report'.Violations = report.Violations
            /\ report'.TotalFiles = report.TotalFiles]_vars

\* C23 witness: Check has returned the report of a project of four collected
\* files with findings of all three stages, reordered by its Finalize.
C23_Witness ==
    /\ pc = "returned"
    /\ Len(goFiles) = 4
    /\ StageDirectory(config, world) # << >>
    /\ ScanFiles(config, world, goFiles, 1) # << >>
    /\ ScanCustom(config, world, goFiles, 1) # << >>
    /\ moved
    /\ report.TotalFiles = 4

\* C24: a file whose parse fails is skipped: the report Check returns holds
\* no finding for that file, from the rules of checkFile or from the custom
\* rules.
C24_UnparsableFileSkipped ==
    pc = "returned" =>
        \A f \in Collected :
            ~f.parses =>
                \A i \in 1..Len(report.Violations) : report.Violations[i].File # f.path

\* The file headers of a text returned by ToText.
FileHeaders(text) == { i \in 1..Len(text) : Len(text[i]) > 0 /\ text[i][1] = "File" }

\* C25: the text of a finalized report has one file header per distinct file
\* path among the report's findings.
C25_OneHeaderPerFile ==
    pc = "printed" =>
        Cardinality(FileHeaders(ret))
            = Cardinality({ report.Violations[i].File : i \in 1..Len(report.Violations) })

\* The struct types declared in a file.
StructTypes(f) ==
    { f.nodes[k] : k \in { i \in 1..Len(f.nodes) :
          f.nodes[i].kind = "TypeSpec" /\ f.nodes[i].type = "StructType" } }

\* The validation_tag rule applies to the struct type named name.
TagRequiredFor(cfg, name) ==
    /\ cfg.StructTags.Enabled
    /\ cfg.StructTags.Rules.ValidationTag.Enabled
    /\ \E i \in 1..Len(cfg.StructTags.Rules.ValidationTag.RequiredFor) :
          GlobMatches(cfg.StructTags.Rules.ValidationTag.RequiredFor[i], name)

\* C26: with validation_tag enabled, every field of a struct type whose name
\* matches a configured glob and that lacks the validate key has one
\* validation_tag finding, with another tag or with no tag at all; a field
\* that carries the key, and every field of a type matching no glob, has none.
C26_ValidationTagRequired ==
    pc = "returned" =>
        \A f \in ParsedFiles(world) : \A ts \in StructTypes(f) :
            \A i \in 1..Len(ts.fields.List) :
                LET field == ts.fields.List[i]
                    lacks == field.tag.isNil \/ ~field.tag.hasValidate
                IN Cardinality(FindingsAt(report, "validation_tag", f.path, field.line))
                     = (IF TagRequiredFor(config, ts.name) /\ lacks THEN 1 ELSE 0)

====
